---- MODULE Spec2Model ----
(***************************************************************************)
(* Host-disk materialization and PVC -> HostDisk rewriting of KubeVirt     *)
(* (pkg/host-disk/host-disk.go).                                           *)
(*                                                                         *)
(* Go's int64/uint64 are modelled as IntBits-wide two's complement words   *)
(* (IntBits plays the part of 64), so that wrap-around of the subtraction  *)
(* in dirBytesAvailable, of the uint64 -> int64 conversion and of the      *)
(* product in shrinkRequestedSize is part of the model.  A path string is  *)
(* the sequence of its components ("" is <<>>); all paths are absolute.    *)
(***************************************************************************)
EXTENDS Integers, Sequences, FiniteSets, TLC

\* ------------------------------------------------------------------ bounds
IntBits == 12
MaxVolumes == 2
MaxCalls == 2

\* ------------------------------------------------------- machine integers
Modulus == 2 ^ IntBits
MaxInt64 == 2 ^ (IntBits - 1) - 1
MinInt64 == -(2 ^ (IntBits - 1))

\* uint64 arithmetic result: wraps modulo 2^IntBits.
Uint64(x) == x % Modulus

\* int64 arithmetic result, and the conversion int64(u) of a uint64.
Int64(x) ==
  LET u == x % Modulus
  IN  IF u > MaxInt64 THEN u - Modulus ELSE u

\* Go's integer division truncates toward zero (b > 0).
Quot(a, b) == IF a >= 0 THEN a \div b ELSE -((-a) \div b)

\* resource.Quantity.AsInt64: the value when it fits an int64, else (0, false);
\* the caller drops the flag.
AsInt64(q) == IF q >= MinInt64 /\ q <= MaxInt64 THEN q ELSE 0

\* ------------------------------------------------------------------ values
NoErr == "nil"
Nil == [null |-> TRUE]

HostDiskExists == "Disk"
HostDiskExistsOrCreate == "DiskOrCreate"

EventReasonToleratedSmallPV == "ToleratedSmallPV"
EventTypeToleratedSmallPV == "Normal"

PersistentVolumeFilesystem == "Filesystem"
PersistentVolumeBlock == "Block"

pvcBaseDir == <<"var", "run", "kubevirt-private", "vmi-disks">>

\* ------------------------------------------------------------------- paths
RECURSIVE CleanFrom(_, _)
CleanFrom(acc, rest) ==
  IF rest = <<>> THEN acc
  ELSE LET c == Head(rest)
       IN  IF c = "." THEN CleanFrom(acc, Tail(rest))
           ELSE IF c = ".."
                THEN CleanFrom(IF acc = <<>> THEN acc ELSE SubSeq(acc, 1, Len(acc) - 1),
                               Tail(rest))
                ELSE CleanFrom(Append(acc, c), Tail(rest))

\* path.Clean of a rooted path.
Clean(p) == CleanFrom(<<>>, p)

RECURSIVE Concat(_)
Concat(elems) == IF elems = <<>> THEN <<>> ELSE Head(elems) \o Concat(Tail(elems))

\* path.Join: empty elements are ignored, the result is cleaned.
Join(elems) == Clean(Concat(elems))

\* filepath.Base: the last element; "." for the empty string.
Base(p) == IF p = <<>> THEN "." ELSE p[Len(p)]

\* A single name used as a path element.
Elem(s) == IF s = "" THEN <<>> ELSE <<s>>

getPVCDiskImgPath(volumeName, diskName) ==
  Join(<<pvcBaseDir, Elem(volumeName), Elem(diskName)>>)

\* Mutant: the image is looked for directly under the base directory.
GetMountedHostDiskPathFlat(volumeName, path) ==
  getPVCDiskImgPath("", Base(path))

GetMountedHostDiskPath(volumeName, path) ==
  getPVCDiskImgPath(volumeName, Base(path))

GetMountedHostDiskDir(volumeName) == getPVCDiskImgPath(volumeName, "")

\* ------------------------------------------------------------- filesystem
\* files: path -> [size, owner, mtime], defined exactly on the existing files.
FileExists(fs, p, fault) ==
  IF fault = "stat" THEN [exists |-> FALSE, err |-> "stat"]
  ELSE [exists |-> p \in DOMAIN fs, err |-> NoErr]

SetFileOwnership(fs, p, fault) ==
  IF p \notin DOMAIN fs THEN [files |-> fs, err |-> "not exist"]
  ELSE IF fault = "chown" THEN [files |-> fs, err |-> "chown"]
  ELSE [files |-> [fs EXCEPT ![p].owner = "qemu"], err |-> NoErr]

dirBytesAvailable(raw, reserve, fault) ==
  IF fault = "statfs" THEN [bytes |-> 0, err |-> "statfs"]
  ELSE [bytes |-> Uint64(raw - reserve), err |-> NoErr]

\* os.Create truncates or creates; WriteAt refuses a negative offset; the
\* deferred close reports its error only when nothing failed before.
createSparseRaw(fs, fullPath, size, fault) ==
  LET offset == Int64(size - 1)
      old == IF fullPath \in DOMAIN fs THEN fs[fullPath]
             ELSE [size |-> 0, owner |-> "root", mtime |-> 0]
      created == (fullPath :> [old EXCEPT !.size = 0, !.mtime = old.mtime + 1])
                 @@ fs
      written == [created EXCEPT ![fullPath].size = offset + 1]
  IN  IF fault = "create" THEN [files |-> fs, err |-> "create"]
      ELSE IF offset < 0 THEN [files |-> created, err |-> "negative offset"]
      ELSE IF fault = "write" THEN [files |-> created, err |-> "write"]
      ELSE IF fault = "close" THEN [files |-> written, err |-> "close"]
      ELSE [files |-> written, err |-> NoErr]

\* ------------------------------------------------------------ materializer
NewHostDiskCreator(lessPVCSpaceToleration, minimumPVCReserveBytes) ==
  [lessPVCSpaceToleration |-> lessPVCSpaceToleration,
   minimumPVCReserveBytes |-> minimumPVCReserveBytes]

\* Mutant: the type of the host disk is not looked at.
shouldMountAnyHostDisk(hostDisk) ==
  /\ hostDisk # Nil
  /\ hostDisk.Path # <<>>

shouldMountHostDisk(hostDisk) ==
  /\ hostDisk # Nil
  /\ hostDisk.Type = HostDiskExistsOrCreate
  /\ hostDisk.Path # <<>>

ToleratedSize(requestedSize, toleration) ==
  Quot(Int64(requestedSize * (100 - toleration)), 100)

\* Mutant: the message states the requested size as the size found.
EventFoundIsExpected(h, requestedSize, availableSize, fault) ==
  [Type |-> EventTypeToleratedSmallPV,
   Reason |-> EventReasonToleratedSmallPV,
   expected |-> requestedSize,
   found |-> requestedSize,
   toleration |-> h.lessPVCSpaceToleration,
   delivered |-> fault # "notify"]

Event(h, requestedSize, availableSize, fault) ==
  [Type |-> EventTypeToleratedSmallPV,
   Reason |-> EventReasonToleratedSmallPV,
   expected |-> requestedSize,
   found |-> availableSize,
   toleration |-> h.lessPVCSpaceToleration,
   delivered |-> fault # "notify"]

\* Mutant: the notifier's error is returned.
shrinkRequestedSizeFailsOnNotify(h, requestedSize, availableSize, fault) ==
  IF ToleratedSize(requestedSize, h.lessPVCSpaceToleration) > availableSize
  THEN [size |-> 0, err |-> "unable to create", events |-> <<>>]
  ELSE IF fault = "notify"
  THEN [size |-> 0, err |-> "notify",
        events |-> <<Event(h, requestedSize, availableSize, fault)>>]
  ELSE [size |-> availableSize, err |-> NoErr,
        events |-> <<Event(h, requestedSize, availableSize, fault)>>]

\* Mutant: a tolerated shrink sends no event.
shrinkRequestedSizeSilently(h, requestedSize, availableSize, fault) ==
  IF ToleratedSize(requestedSize, h.lessPVCSpaceToleration) > availableSize
  THEN [size |-> 0, err |-> "unable to create", events |-> <<>>]
  ELSE [size |-> availableSize, err |-> NoErr, events |-> <<>>]

shrinkRequestedSize(h, requestedSize, availableSize, fault) ==
  IF ToleratedSize(requestedSize, h.lessPVCSpaceToleration) > availableSize
  THEN [size |-> 0, err |-> "unable to create", events |-> <<>>]
  ELSE [size |-> availableSize, err |-> NoErr,
        events |-> <<Event(h, requestedSize, availableSize, fault)>>]

\* What one pass of the loop body of Create did, besides the files.
\* mounted: the volume passed shouldMountHostDisk; path: the image path that
\* was looked up; existed: FileExists found it; probed: the capacity probe
\* was called on dir; sized: it answered (raw bytes of the filesystem,
\* available and requested as compared); allocated: createSparseRaw was
\* called with allocSize; events: the notifier calls.
NoObs ==
  [mounted |-> FALSE, path |-> <<>>, existed |-> FALSE, probed |-> FALSE,
   dir |-> <<>>, sized |-> FALSE, raw |-> 0, available |-> 0, requested |-> 0,
   allocated |-> FALSE, allocSize |-> 0, events |-> <<>>]

\* Mutant: the request is shrunk whenever it does not exceed the available size.
handleRequestedSizeShrinksWhenFits(fs, h, diskDir, diskPath, hostDisk, raw, fault) ==
  LET probe == dirBytesAvailable(raw, h.minimumPVCReserveBytes, fault)
      availableSize == Int64(probe.bytes)
      requestedSize == AsInt64(hostDisk.Capacity)
      obs == [NoObs EXCEPT !.mounted = TRUE, !.path = diskPath, !.probed = TRUE,
                           !.dir = diskDir]
      sized == [obs EXCEPT !.sized = TRUE, !.raw = raw, !.available = availableSize,
                           !.requested = requestedSize]
      shrunk == IF requestedSize <= availableSize
                THEN shrinkRequestedSize(h, requestedSize, availableSize, fault)
                ELSE [size |-> requestedSize, err |-> NoErr, events |-> <<>>]
      made == createSparseRaw(fs, diskPath, shrunk.size, fault)
  IN  IF probe.err # NoErr THEN [files |-> fs, err |-> probe.err, obs |-> obs]
      ELSE IF shrunk.err # NoErr THEN [files |-> fs, err |-> shrunk.err, obs |-> sized]
      ELSE [files |-> made.files, err |-> made.err,
            obs |-> [sized EXCEPT !.allocated = TRUE, !.allocSize = shrunk.size,
                                  !.events = shrunk.events]]

handleRequestedSizeAndCreateSparseRaw(fs, h, diskDir, diskPath, hostDisk, raw, fault) ==
  LET probe == dirBytesAvailable(raw, h.minimumPVCReserveBytes, fault)
      availableSize == Int64(probe.bytes)
      requestedSize == AsInt64(hostDisk.Capacity)
      obs == [NoObs EXCEPT !.mounted = TRUE, !.path = diskPath, !.probed = TRUE,
                           !.dir = diskDir]
      sized == [obs EXCEPT !.sized = TRUE, !.raw = raw, !.available = availableSize,
                           !.requested = requestedSize]
      shrunk == IF requestedSize > availableSize
                THEN shrinkRequestedSize(h, requestedSize, availableSize, fault)
                ELSE [size |-> requestedSize, err |-> NoErr, events |-> <<>>]
      made == createSparseRaw(fs, diskPath, shrunk.size, fault)
  IN  IF probe.err # NoErr THEN [files |-> fs, err |-> probe.err, obs |-> obs]
      ELSE IF shrunk.err # NoErr THEN [files |-> fs, err |-> shrunk.err, obs |-> sized]
      ELSE [files |-> made.files, err |-> made.err,
            obs |-> [sized EXCEPT !.allocated = TRUE, !.allocSize = shrunk.size,
                                  !.events = shrunk.events]]

\* Mutant: the image is created whether or not it exists.
mountHostDiskAlwaysCreates(fs, h, volumeName, hostDisk, raw, fault) ==
  LET diskPath == GetMountedHostDiskPath(volumeName, hostDisk.Path)
      diskDir == GetMountedHostDiskDir(volumeName)
      found == FileExists(fs, diskPath, fault)
      made == handleRequestedSizeAndCreateSparseRaw(fs, h, diskDir, diskPath,
                                                    hostDisk, raw, fault)
      owned == SetFileOwnership(made.files, diskPath, fault)
  IN  IF found.err # NoErr THEN [files |-> fs, err |-> found.err, obs |-> made.obs]
      ELSE IF made.err # NoErr THEN made
      ELSE [files |-> owned.files, err |-> owned.err, obs |-> made.obs]

mountHostDiskAndSetOwnership(fs, h, volumeName, hostDisk, raw, fault) ==
  LET diskPath == GetMountedHostDiskPath(volumeName, hostDisk.Path)
      diskDir == GetMountedHostDiskDir(volumeName)
      found == FileExists(fs, diskPath, fault)
      seen == [NoObs EXCEPT !.mounted = TRUE, !.path = diskPath,
                            !.existed = found.exists]
      made == IF found.exists THEN [files |-> fs, err |-> NoErr, obs |-> seen]
              ELSE handleRequestedSizeAndCreateSparseRaw(fs, h, diskDir, diskPath,
                                                         hostDisk, raw, fault)
      owned == SetFileOwnership(made.files, diskPath, fault)
  IN  IF found.err # NoErr THEN [files |-> fs, err |-> found.err, obs |-> seen]
      ELSE IF made.err # NoErr THEN made
      ELSE [files |-> owned.files, err |-> owned.err, obs |-> made.obs]

\* The body of the loop of Create for one volume.
CreateVolume(fs, h, volume, raw, fault) ==
  IF shouldMountHostDisk(volume.HostDisk)
  THEN mountHostDiskAndSetOwnership(fs, h, volume.Name, volume.HostDisk, raw, fault)
  ELSE [files |-> fs, err |-> NoErr, obs |-> NoObs]

\* Mutant: the loop goes on after an error.
CreateReturnsNever(err) == FALSE

\* Create returns the first error of the loop.
CreateReturns(err) == err # NoErr

\* ---------------------------------------------------------------- rewriter
\* passthoughFSVolumes: the names of vmi.Spec.Domain.Devices.Filesystems.
passthoughFSVolumes(fsDevices) == {fsDevices[i].Name : i \in DOMAIN fsDevices}

\* hotplugVolumes: the names whose status carries a HotplugVolume.
hotplugVolumes(status) ==
  {status[i].Name : i \in {j \in DOMAIN status : status[j].HotplugVolume # Nil}}

\* pvcVolume: the indices of the status entries of a name that carry
\* PersistentVolumeClaimInfo; the map keeps the last one.
pvcVolumeEntries(status, name) ==
  {j \in DOMAIN status :
     status[j].Name = name /\ status[j].PersistentVolumeClaimInfo # Nil}

Max(S) == CHOOSE x \in S : \A y \in S : y <= x

pvcVolume(status, name) == status[Max(pvcVolumeEntries(status, name))]

HasSharedAccessMode(accessModes) ==
  \E i \in DOMAIN accessModes : accessModes[i] = "ReadWriteMany"

\* The filters of the loop body of ReplacePVCByHostDisk.
\* Mutant: hotplugged volumes are not filtered out.
ShouldReplaceHotplugged(volume, fsDevices, status) ==
  /\ volume.PersistentVolumeClaim # Nil
  /\ volume.Name \notin passthoughFSVolumes(fsDevices)
  /\ pvcVolumeEntries(status, volume.Name) # {}
  /\ pvcVolume(status, volume.Name).PersistentVolumeClaimInfo.VolumeMode # "nil"
  /\ pvcVolume(status, volume.Name).PersistentVolumeClaimInfo.VolumeMode
       # PersistentVolumeBlock

ShouldReplace(volume, fsDevices, status) ==
  /\ volume.PersistentVolumeClaim # Nil
  /\ volume.Name \notin passthoughFSVolumes(fsDevices)
  /\ volume.Name \notin hotplugVolumes(status)
  /\ pvcVolumeEntries(status, volume.Name) # {}
  /\ pvcVolume(status, volume.Name).PersistentVolumeClaimInfo.VolumeMode # "nil"
  /\ pvcVolume(status, volume.Name).PersistentVolumeClaimInfo.VolumeMode
       # PersistentVolumeBlock

\* Mutant: the host disk is never marked shared.
NewHostDiskUnshared(volume, status) ==
  LET info == pvcVolume(status, volume.Name).PersistentVolumeClaimInfo
  IN  [Path |-> getPVCDiskImgPath(volume.Name, "disk.img"),
       Type |-> HostDiskExistsOrCreate,
       Capacity |-> info.Capacity,
       Shared |-> FALSE]

NewHostDisk(volume, status) ==
  LET info == pvcVolume(status, volume.Name).PersistentVolumeClaimInfo
  IN  [Path |-> getPVCDiskImgPath(volume.Name, "disk.img"),
       Type |-> HostDiskExistsOrCreate,
       Capacity |-> info.Capacity,
       Shared |-> HasSharedAccessMode(info.AccessModes)]

\* Mutant: every ownership error aborts the rewrite.
ReplaceFailsOnAny(err) == err # NoErr

\* An ownership error aborts the rewrite unless it is "not exist".
ReplaceFails(err) == err # NoErr /\ err # "not exist"

\* Mutant: a volume whose ownership normalization fails keeps its PVC.
ReplaceVolumeAtomic(fs, volume, fsDevices, status, fault) ==
  IF ShouldReplace(volume, fsDevices, status)
  THEN LET hostDisk == NewHostDisk(volume, status)
           owned == SetFileOwnership(fs, hostDisk.Path, fault)
       IN  [volume |-> IF ReplaceFails(owned.err) THEN volume
                       ELSE [volume EXCEPT !.HostDisk = hostDisk,
                                           !.PersistentVolumeClaim = Nil],
            files |-> owned.files,
            err |-> IF ReplaceFails(owned.err) THEN owned.err ELSE NoErr,
            obs |-> [NoObs EXCEPT !.mounted = TRUE, !.path = hostDisk.Path]]
  ELSE [volume |-> volume, files |-> fs, err |-> NoErr, obs |-> NoObs]

\* The body of the loop of ReplacePVCByHostDisk for one volume.
ReplaceVolume(fs, volume, fsDevices, status, fault) ==
  IF ShouldReplace(volume, fsDevices, status)
  THEN LET hostDisk == NewHostDisk(volume, status)
           owned == SetFileOwnership(fs, hostDisk.Path, fault)
       IN  [volume |-> [volume EXCEPT !.HostDisk = hostDisk,
                                      !.PersistentVolumeClaim = Nil],
            files |-> owned.files,
            err |-> IF ReplaceFails(owned.err) THEN owned.err ELSE NoErr,
            obs |-> [NoObs EXCEPT !.mounted = TRUE, !.path = hostDisk.Path]]
  ELSE [volume |-> volume, files |-> fs, err |-> NoErr, obs |-> NoObs]

\* ------------------------------------------------------------------- state
VARIABLES
  volumes,       \* vmi.Spec.Volumes
  fsDevices,     \* vmi.Spec.Domain.Devices.Filesystems
  volumeStatus,  \* vmi.Status.VolumeStatus
  hdc,           \* the DiskImgCreator
  files,         \* the node's filesystem below pvcBaseDir
  op,            \* the call running or last run: "none", "Create", "Replace"
  pc,            \* "idle" between calls, "loop" inside the volume loop
  idx,           \* the loop index (1-based); the failing volume after an error
  ret,           \* the value the last call returned
  log,           \* what each pass of the running (or last) call did
  start,         \* files and volumes when the running (or last) call began
  prev,          \* the call before it: op, ret, failing index, files and
                 \* volumes when it began
  calls          \* number of calls made

hvars == <<volumes, fsDevices, volumeStatus, hdc, files, op, pc, idx, ret, log,
          start, prev, calls>>

\* The convergence waiter and the configuration updates of the test suite.
VARIABLES
  pods,          \* per component class, the pods its label selector lists
  wmode,         \* "none", "component" (one class is waited for) or "all"
  target,        \* the resource version waited for
  policy,        \* the comparison policy: "LessThan" or "Equal"
  comp,          \* the class being waited for (index in Components), 0: none
  wpc,           \* "idle", "poll" (a poll is due), "select" (waiting for
                 \* the interval or the timeout), "returned" (the wait of
                 \* the class returned), "done", "failed"
  wstate,        \* per class: "NotStarted", "Polling", "Converged",
                 \* "TimedOut", "Panicked"
  clock,         \* seconds since the wait for the class began
  polled,        \* the classes that were polled at least once
  lastPoll,      \* the last poll iteration: its fault and its error
  failure,       \* the error the wait failed with
  called,        \* the pods (class, index) whose health endpoint was called
  changes,       \* number of changes of the pods since Init
  parallelTotal, \* config.GinkgoConfig.ParallelTotal
  store,         \* the cluster configuration: value and resource version
  upd            \* the configuration update running or last run

wvars == <<pods, wmode, target, policy, comp, wpc, wstate, clock, polled,
           lastPoll, failure, called, changes>>

uvars == <<parallelTotal, store, upd>>

VARIABLES
  watcher,       \* the ObjectEventWatcher: its fields
  sent,          \* the watch events of the stream of the running Watch
  pending,       \* those of them the goroutine has not received yet
  delivered,     \* the events the goroutine handled, each with its outcome
  wmain,         \* the caller of Watch: where it is, how it ended, what
                 \* WaitFor or WaitNotFor returned
  wproc,         \* the event-processing goroutine: where it is, the
                 \* variable e it writes, how often it closed done
  signals        \* the channels of the select: done, ctx.Done, time.After

evars == <<watcher, sent, pending, delivered, wmain, wproc, signals>>

vars == <<hvars, wvars, uvars, evars>>

\* ------------------------------------------------------------------ inputs
\* SmallCap: the largest capacity whose product with 100 fits an int64.
\* BigCap: the smallest capacity whose product with 100 - 5 does not.
SmallCap == MaxInt64 \div 100
BigCap == MaxInt64 \div (100 - 5) + 1
ReserveBytes == SmallCap \div 5
PreSize == SmallCap \div 2

Names == <<"volume1", "volume2", "volume3", "volume4">>

Faults == {"none", "stat", "statfs", "create", "write", "close", "chown", "notify"}

\* The tolerated size of SmallCap at 5 percent.
SmallTolerated == (SmallCap * (100 - 5)) \div 100

\* Raw available bytes statfs may report (Bavail * Bsize): nothing; one byte
\* below and exactly at the 5 percent toleration of SmallCap once the reserve
\* is taken off; room for every capacity and the reserve.
RawChoices ==
  {0, SmallTolerated + ReserveBytes - 1, SmallTolerated + ReserveBytes,
   BigCap + ReserveBytes}

Creators == {NewHostDiskCreator(0, 0), NewHostDiskCreator(5, ReserveBytes)}

HostDisk(path, type, capacity) ==
  [Path |-> path, Type |-> type, Capacity |-> capacity, Shared |-> FALSE]

Volume(name, hostDisk, claim) ==
  [Name |-> name, HostDisk |-> hostDisk, PersistentVolumeClaim |-> claim]

Claim == [ClaimName |-> "madeup"]

Info(mode, capacity, accessModes) ==
  [VolumeMode |-> mode, Capacity |-> capacity, AccessModes |-> accessModes]

Status(name, hotplug, info) ==
  [Name |-> name, HotplugVolume |-> hotplug, PersistentVolumeClaimInfo |-> info]

Hotplug == [AttachPodName |-> "hp"]

Case(volume, status, devices) ==
  [volume |-> volume, status |-> status, devices |-> devices]

\* HostDisk volumes, as a user declares them.
HostDiskCases(n) ==
  {Case(Volume(n, HostDisk(getPVCDiskImgPath(n, "disk.img"),
                           HostDiskExistsOrCreate, c), Nil), <<>>, <<>>) :
     c \in {0, SmallCap, BigCap}}
  \cup
  {Case(Volume(n, HostDisk(<<"mnt", "data.img">>, HostDiskExistsOrCreate, SmallCap),
               Nil), <<>>, <<>>),
   Case(Volume(n, HostDisk(<<>>, HostDiskExistsOrCreate, SmallCap), Nil), <<>>, <<>>),
   Case(Volume(n, HostDisk(getPVCDiskImgPath(n, "disk.img"), HostDiskExists, 0),
               Nil), <<>>, <<>>),
   Case(Volume(n, HostDisk(getPVCDiskImgPath(n, "disk.img"), "UnknownType", 0),
               Nil), <<>>, <<>>),
   Case(Volume(n, Nil, Nil), <<>>, <<>>)}

\* PVC volumes with the status and devices the orchestration layer gives them.
PVCCases(n) ==
  {Case(Volume(n, Nil, Claim),
        <<Status(n, Nil, Info(PersistentVolumeFilesystem, c, m))>>, <<>>) :
     c \in {SmallCap}, m \in {<<"ReadWriteOnce">>, <<"ReadWriteMany">>}}
  \cup
  {Case(Volume(n, Nil, Claim),
        <<Status(n, Nil, Info(PersistentVolumeFilesystem, 0, <<>>))>>, <<>>),
   Case(Volume(n, Nil, Claim),
        <<Status(n, Nil, Info(PersistentVolumeBlock, SmallCap, <<"ReadWriteOnce">>))>>,
        <<>>),
   Case(Volume(n, Nil, Claim),
        <<Status(n, Nil, Info("nil", SmallCap, <<"ReadWriteOnce">>))>>, <<>>),
   Case(Volume(n, Nil, Claim), <<>>, <<>>),
   Case(Volume(n, Nil, Claim), <<Status(n, Nil, Nil)>>, <<>>),
   Case(Volume(n, Nil, Claim),
        <<Status(n, Hotplug,
                 Info(PersistentVolumeFilesystem, SmallCap, <<"ReadWriteOnce">>))>>,
        <<>>),
   Case(Volume(n, Nil, Claim),
        <<Status(n, Nil,
                 Info(PersistentVolumeFilesystem, SmallCap, <<"ReadWriteOnce">>))>>,
        <<[Name |-> n]>>),
   Case(Volume(n, Nil, Claim),
        <<Status(n, Nil, Info(PersistentVolumeBlock, SmallCap, <<"ReadWriteOnce">>))>>,
        <<[Name |-> n]>>),
   Case(Volume(n, HostDisk(<<"mnt", "data.img">>, HostDiskExistsOrCreate, SmallCap),
               Nil), <<>>, <<>>),
   Case(Volume(n, Nil, Nil), <<>>, <<>>)}

Cases(kind, n) == IF kind = "HostDisk" THEN HostDiskCases(n) ELSE PVCCases(n)

RECURSIVE VMIs(_, _)
\* Every list of n cases of a kind, the i-th named Names[i].
VMIs(kind, n) ==
  IF n = 0 THEN {<<>>}
  ELSE {Append(v, c) : v \in VMIs(kind, n - 1), c \in Cases(kind, Names[n])}

RECURSIVE Gather(_, _)
Gather(cs, field) ==
  IF cs = <<>> THEN <<>>
  ELSE IF field = "status" THEN Head(cs).status \o Gather(Tail(cs), field)
  ELSE Head(cs).devices \o Gather(Tail(cs), field)

\* An image left by an earlier start of the VM instance.
OldImage(n) ==
  getPVCDiskImgPath(n, "disk.img") :> [size |-> PreSize, owner |-> "root", mtime |-> 0]

NoFiles == [p \in {} |-> 0]

InitWith(kind) ==
  /\ \E n \in 0..MaxVolumes : \E cs \in VMIs(kind, n) :
       /\ volumes = [i \in 1..n |-> cs[i].volume]
       /\ volumeStatus = Gather(cs, "status")
       /\ fsDevices = Gather(cs, "devices")
  /\ hdc \in Creators
  /\ files \in {NoFiles, OldImage(Names[1])}
  /\ op = "none"
  /\ pc = "idle"
  /\ idx = 0
  /\ ret = NoErr
  /\ log = <<>>
  /\ start = [files |-> files, volumes |-> volumes]
  /\ prev = [op |-> "none", ret |-> NoErr, at |-> 0, files |-> files,
              volumes |-> volumes]
  /\ calls = 0

\* No pods and no wait: the state of the waiter where only host disks act.
NoWait ==
  /\ pods = <<>> /\ wmode = "none" /\ target = <<>> /\ policy = "LessThan"
  /\ comp = 0 /\ wpc = "idle" /\ wstate = <<>> /\ clock = 0 /\ polled = {}
  /\ lastPoll = Nil /\ failure = Nil /\ called = {} /\ changes = 0

\* No configuration update.
NoUpdate == parallelTotal = 1 /\ store = Nil /\ upd = Nil

\* No event watcher.
NoWatch ==
  /\ watcher = Nil /\ sent = <<>> /\ pending = <<>> /\ delivered = <<>>
  /\ wmain = Nil /\ wproc = Nil /\ signals = Nil

Init == InitWith("HostDisk") /\ NoWait /\ NoUpdate /\ NoWatch

InitRewrite == InitWith("PVC") /\ NoWait /\ NoUpdate /\ NoWatch

\* ----------------------------------------------------------------- actions
\* A call begins.  prev is a history variable: the call that just ended is
\* recorded in it when remember is set, and else it stays as it is.
Begin(name, remember) ==
  /\ pc = "idle"
  /\ calls < MaxCalls
  /\ calls' = calls + 1
  /\ op' = name
  /\ prev' = IF remember
             THEN [op |-> op, ret |-> ret, at |-> idx, files |-> start.files,
                   volumes |-> start.volumes]
             ELSE prev
  /\ start' = [files |-> files, volumes |-> volumes]
  /\ log' = <<>>
  /\ ret' = NoErr
  /\ idx' = IF volumes = <<>> THEN 0 ELSE 1
  /\ pc' = IF volumes = <<>> THEN "idle" ELSE "loop"
  /\ UNCHANGED <<volumes, fsDevices, volumeStatus, hdc, files>>
  /\ UNCHANGED <<wvars, uvars, evars>>

\* One pass of a loop ended with err: return it, go on, or return nil.
Advance(returns, err) ==
  /\ ret' = IF returns THEN err ELSE NoErr
  /\ pc' = IF returns \/ idx = Len(volumes) THEN "idle" ELSE "loop"
  /\ idx' = IF returns \/ idx = Len(volumes) THEN idx ELSE idx + 1

\* hdc.Create(vmi) is called.
CreateBegin == Begin("Create", FALSE)

\* hdc.Create(vmi) is called, and the call before it is remembered.
CreateAgain == Begin("Create", TRUE)

\* Create handles volume idx.
CreateStep ==
  /\ pc = "loop"
  /\ op = "Create"
  /\ \E raw \in RawChoices, fault \in Faults :
       LET r == CreateVolume(files, hdc, volumes[idx], raw, fault)
       IN  /\ files' = r.files
           /\ log' = Append(log, [vol |-> idx, err |-> r.err, obs |-> r.obs])
           /\ Advance(CreateReturns(r.err), r.err)
  /\ UNCHANGED <<volumes, fsDevices, volumeStatus, hdc, op, start, prev, calls>>
  /\ UNCHANGED <<wvars, uvars, evars>>

\* ReplacePVCByHostDisk(vmi) is called.
ReplaceBegin == Begin("Replace", TRUE)

\* ReplacePVCByHostDisk handles volume idx.
ReplaceStep ==
  /\ pc = "loop"
  /\ op = "Replace"
  /\ \E fault \in {"none", "chown"} :
       LET r == ReplaceVolume(files, volumes[idx], fsDevices, volumeStatus, fault)
       IN  /\ files' = r.files
           /\ volumes' = [volumes EXCEPT ![idx] = r.volume]
           /\ log' = Append(log, [vol |-> idx, err |-> r.err, obs |-> r.obs])
           /\ Advance(r.err # NoErr, r.err)
  /\ UNCHANGED <<fsDevices, volumeStatus, hdc, op, start, prev, calls>>
  /\ UNCHANGED <<wvars, uvars, evars>>

\* The materializer alone, on the HostDisk volumes a user declares.
Next == CreateBegin \/ CreateStep

Spec == Init /\ [][Next]_vars

\* The materializer called again after an earlier call (a retry).
NextRetry == CreateAgain \/ CreateStep

SpecRetry == Init /\ [][NextRetry]_vars

\* The rewriter and the materializer, on the volumes of a VM instance with
\* PVCs.
NextRewrite == ReplaceBegin \/ ReplaceStep \/ CreateAgain \/ CreateStep

SpecRewrite == InitRewrite /\ [][NextRewrite]_vars

\* ------------------------------------------------------------------ claims
\* The image path the materializer uses for a HostDisk volume.
ImagePath(v) == GetMountedHostDiskPath(v.Name, v.HostDisk.Path)

\* A path is in the same condition in two filesystems.
SameFile(p, f, g) ==
  /\ p \in DOMAIN f <=> p \in DOMAIN g
  /\ p \in DOMAIN f => f[p] = g[p]

\* C1: Create handles the volumes in declared order, one pass each, and is
\* fail-fast without rollback: only the last pass can have failed, Create
\* returns that pass's error, no volume after the failing one gets a pass
\* (no probe, no event) or a change to its image file, and every image
\* allocated by an earlier pass is still there with the size it was given.
C1_FailFastNoRollback ==
  op = "Create" =>
    /\ \A k \in DOMAIN log : log[k].vol = k
    /\ Len(log) = IF pc = "loop" THEN idx - 1 ELSE idx
    /\ \A k \in DOMAIN log : k < Len(log) => log[k].err = NoErr
    /\ pc = "idle" => ret = IF log = <<>> THEN NoErr ELSE log[Len(log)].err
    /\ (pc = "idle" /\ ret # NoErr) =>
         /\ \A j \in (idx + 1)..Len(volumes) :
              volumes[j].HostDisk # Nil =>
                SameFile(ImagePath(volumes[j]), files, start.files)
         /\ \A k \in 1..(idx - 1) :
              log[k].obs.allocated =>
                /\ log[k].obs.path \in DOMAIN files
                /\ files[log[k].obs.path].size = log[k].obs.allocSize

\* Create refused the first of two volumes; the second, which it would
\* have created, has no image.
C1_Witness ==
  /\ op = "Create" /\ pc = "idle" /\ ret = "unable to create"
  /\ idx = 1 /\ Len(volumes) = 2
  /\ shouldMountHostDisk(volumes[2].HostDisk)
  /\ ImagePath(volumes[2]) \notin DOMAIN files

\* C2: an image that exists when Create is called is never probed for,
\* announced, recreated, truncated or resized by that call, whatever its
\* size and the declared Capacity: every file of the call's start keeps its
\* size and modification time, so a second run changes nothing the first
\* run left.
C2_ExistingImagesUntouched ==
  op = "Create" =>
    /\ \A k \in DOMAIN log :
         (log[k].obs.mounted /\ log[k].obs.path \in DOMAIN start.files) =>
           /\ ~log[k].obs.probed
           /\ ~log[k].obs.allocated
           /\ log[k].obs.events = <<>>
    /\ \A p \in DOMAIN start.files :
         /\ p \in DOMAIN files
         /\ files[p].size = start.files[p].size
         /\ files[p].mtime = start.files[p].mtime

\* A second Create returned nil after passing an image whose size is not the
\* declared Capacity.
C2_Witness ==
  /\ op = "Create" /\ calls = 2 /\ pc = "idle" /\ ret = NoErr
  /\ \E k \in DOMAIN log :
       /\ log[k].obs.mounted
       /\ log[k].obs.path \in DOMAIN start.files
       /\ files[log[k].obs.path].size # AsInt64(volumes[k].HostDisk.Capacity)

\* The size the spec resolves for a request that does not fit: the floor of
\* requested * (100 - toleratePercent) / 100, in unbounded arithmetic.
SpecTolerated(requested, toleration) == (requested * (100 - toleration)) \div 100

\* A size that size resolution can give an image of the requested capacity.
ResolvedSize(size, requested, toleration) ==
  \/ size = requested
  \/ size < requested /\ size >= SpecTolerated(requested, toleration)

\* Every probe of the running call found room for the request.
EnoughSpace == \A k \in DOMAIN log : log[k].obs.sized =>
                 log[k].obs.available >= log[k].obs.requested

\* C3: partial materialization is a recoverable retry state: when a Create
\* that follows a failed Create on the same VM instance returns nil, having
\* found enough space wherever it probed, the volumes before the failing one
\* have their files unchanged and every volume from the failing one on has
\* an image of a size that size resolution gives it (the requested size
\* unless the earlier call shrank it), as after one successful Create.
C3_RetryRecovers ==
  (/\ op = "Create" /\ prev.op = "Create" /\ prev.ret # NoErr
   /\ pc = "idle" /\ ret = NoErr /\ EnoughSpace) =>
    \A j \in DOMAIN volumes :
      shouldMountHostDisk(volumes[j].HostDisk) =>
        LET p == ImagePath(volumes[j])
        IN  /\ p \in DOMAIN files
            /\ j < prev.at => SameFile(p, files, start.files)
            /\ (j >= prev.at /\ p \notin DOMAIN prev.files) =>
                 ResolvedSize(files[p].size, AsInt64(volumes[j].HostDisk.Capacity),
                              hdc.lessPVCSpaceToleration)

\* C4: toleration boundary at byte granularity: in every pass that resolved
\* the size of a missing image with requested > available, if available is
\* at least floor(requested * (100 - toleratePercent) / 100) the pass is not
\* refused and allocates exactly the available bytes (the file has that size
\* when the pass succeeds); if available is below it the pass fails with
\* "unable to create", allocates nothing and leaves no file at the path.
C4_TolerationBoundary ==
  op = "Create" =>
    \A k \in DOMAIN log :
      LET o == log[k].obs
          tolerated == SpecTolerated(o.requested, hdc.lessPVCSpaceToleration)
      IN  (o.sized /\ o.requested > o.available) =>
            IF o.available >= tolerated
            THEN /\ log[k].err # "unable to create"
                 /\ o.allocated /\ o.allocSize = o.available
                 /\ log[k].err = NoErr =>
                      /\ o.path \in DOMAIN files
                      /\ files[o.path].size = o.available
            ELSE /\ log[k].err = "unable to create"
                 /\ ~o.allocated
                 /\ o.path \notin DOMAIN files

\* C5: exact sizing: in every pass that resolved the size of a missing
\* ExistsOrCreate image with requested <= the probed available bytes, no
\* event is emitted, the pass is not refused, the size allocated is exactly
\* the requested capacity whatever the toleration, and when the pass
\* succeeds the file at the volume's path has exactly that length.
C5_ExactSizing ==
  op = "Create" =>
    \A k \in DOMAIN log :
      LET o == log[k].obs
      IN  (o.sized /\ o.requested <= o.available) =>
            /\ o.events = <<>>
            /\ log[k].err # "unable to create"
            /\ o.allocated /\ o.allocSize = o.requested
            /\ log[k].err = NoErr =>
                 /\ o.path \in DOMAIN files
                 /\ files[o.path].size = AsInt64(volumes[k].HostDisk.Capacity)

C5_Witness ==
  /\ op = "Create" /\ hdc.lessPVCSpaceToleration = 5
  /\ \E k \in DOMAIN log :
       /\ log[k].err = NoErr /\ log[k].obs.sized
       /\ log[k].obs.requested = SmallCap
       /\ log[k].obs.available > SmallCap
       /\ files[log[k].obs.path].size = SmallCap

\* C6: the reserve only matters under shortage: in every pass that resolved
\* the size of a missing image, when raw available bytes minus
\* minimumPVCReserveBytes is at least the request the size allocated is the
\* request; when the request fits the raw bytes but not raw minus reserve,
\* the size allocated is raw minus reserve if that is within the toleration,
\* and otherwise the pass fails with "unable to create" and writes no file.
C6_ReserveOnlyUnderShortage ==
  op = "Create" =>
    \A k \in DOMAIN log :
      LET o == log[k].obs
          net == o.raw - hdc.minimumPVCReserveBytes
          tolerated == SpecTolerated(o.requested, hdc.lessPVCSpaceToleration)
      IN  o.sized =>
            /\ net >= o.requested =>
                 o.allocated /\ o.allocSize = o.requested
            /\ (o.requested <= o.raw /\ o.requested > net) =>
                 IF net >= tolerated
                 THEN /\ log[k].err # "unable to create"
                      /\ o.allocated /\ o.allocSize = net
                 ELSE /\ log[k].err = "unable to create"
                      /\ ~o.allocated
                      /\ o.path \notin DOMAIN files

\* The volumes Create is specified to act on: an ExistsOrCreate HostDisk
\* with a non-empty Path.
IsCreatable(v) ==
  /\ v.HostDisk # Nil
  /\ v.HostDisk.Type = "DiskOrCreate"
  /\ Len(v.HostDisk.Path) > 0

\* C7: Create is a no-op for every volume that is not an ExistsOrCreate
\* HostDisk with a non-empty Path: the pass over a volume with no HostDisk,
\* of Type Exists, of an unrecognized Type or with an empty Path leaves
\* every file as it was, stats and probes nothing, emits no event and ends
\* without error, whether or not a file exists at the path.
C7_NoOpForOtherVolumes ==
  [][(op = "Create" /\ pc = "loop" /\ ~IsCreatable(volumes[idx])) =>
       /\ files' = files
       /\ log' = Append(log, [vol |-> idx, err |-> NoErr, obs |-> NoObs])
       /\ pc' = "idle" => ret' = NoErr
       /\ pc' = "loop" => idx' = idx + 1]_vars

C7_Witness ==
  /\ op = "Create" /\ pc = "idle" /\ ret = NoErr /\ Len(log) = 2
  /\ volumes[1].HostDisk # Nil /\ volumes[1].HostDisk.Type = HostDiskExists
  /\ volumes[1].HostDisk.Path \in DOMAIN files
  /\ volumes[2].HostDisk # Nil /\ volumes[2].HostDisk.Type = "UnknownType"
  /\ volumes[2].HostDisk.Path \notin DOMAIN files
  /\ files = start.files
  /\ \A k \in DOMAIN log : log[k].obs = NoObs

\* The status entries of a volume name.
StatusOf(name) == {j \in DOMAIN volumeStatus : volumeStatus[j].Name = name}

\* The volumes the rewriter is specified to replace: PVC-backed, with a
\* status entry carrying PersistentVolumeClaimInfo in Filesystem mode, not
\* marked hotplugged and not named by a filesystem-passthrough device.
Eligible(v) ==
  /\ v.PersistentVolumeClaim # Nil
  /\ \E j \in StatusOf(v.Name) :
       /\ volumeStatus[j].PersistentVolumeClaimInfo # Nil
       /\ volumeStatus[j].PersistentVolumeClaimInfo.VolumeMode = "Filesystem"
  /\ \A j \in StatusOf(v.Name) : volumeStatus[j].HotplugVolume = Nil
  /\ \A d \in DOMAIN fsDevices : fsDevices[d].Name # v.Name

\* C8: after ReplacePVCByHostDisk returns nil, every volume that was
\* eligible at the call has PersistentVolumeClaim nil and a HostDisk with
\* Path pvcBaseDir/volumeName/disk.img, Type ExistsOrCreate, the storage
\* capacity of its status and Shared set exactly when the status access
\* modes contain ReadWriteMany: exactly one of the two sources is set.
C8_RewriteResult ==
  (op = "Replace" /\ pc = "idle" /\ ret = NoErr) =>
    \A i \in DOMAIN start.volumes :
      Eligible(start.volumes[i]) =>
        \E j \in StatusOf(start.volumes[i].Name) :
          LET info == volumeStatus[j].PersistentVolumeClaimInfo
          IN  /\ info # Nil
              /\ volumes[i].PersistentVolumeClaim = Nil
              /\ volumes[i].HostDisk # Nil
              /\ volumes[i].HostDisk =
                   [Path |-> pvcBaseDir \o <<volumes[i].Name, "disk.img">>,
                    Type |-> "DiskOrCreate",
                    Capacity |-> info.Capacity,
                    Shared |-> \E m \in DOMAIN info.AccessModes :
                                 info.AccessModes[m] = "ReadWriteMany"]

C8_Witness ==
  /\ op = "Replace" /\ pc = "idle" /\ ret = NoErr /\ Len(volumes) = 2
  /\ \A i \in 1..2 : Eligible(start.volumes[i]) /\ volumes[i].HostDisk # Nil
  /\ volumes[1].HostDisk.Shared /\ ~volumes[2].HostDisk.Shared
  /\ volumes[1].HostDisk.Capacity = SmallCap

\* C9: ReplacePVCByHostDisk leaves every ineligible volume untouched: at
\* every point of a call, the number, order and names of the volumes are
\* those of the call's start, and every volume that was not eligible (named
\* by a passthrough device, hotplugged, without PersistentVolumeClaimInfo,
\* with unset or Block mode, or not PVC-backed) is exactly as it was.
C9_IneligibleUntouched ==
  op = "Replace" =>
    /\ Len(volumes) = Len(start.volumes)
    /\ \A i \in DOMAIN volumes :
         /\ volumes[i].Name = start.volumes[i].Name
         /\ ~Eligible(start.volumes[i]) => volumes[i] = start.volumes[i]

C9_Witness ==
  /\ op = "Replace" /\ pc = "idle" /\ ret = NoErr /\ Len(volumes) = 2
  /\ fsDevices # <<>> /\ fsDevices[1].Name = volumes[1].Name
  /\ ~Eligible(start.volumes[1])
  /\ volumes[1].PersistentVolumeClaim # Nil /\ volumes[1].HostDisk = Nil
  /\ \E j \in StatusOf(volumes[2].Name) : volumeStatus[j].HotplugVolume # Nil
  /\ volumes[2].PersistentVolumeClaim # Nil /\ volumes[2].HostDisk = Nil

\* C10: the rewriter and the materializer agree on the image location: for
\* every volume rewritten by ReplacePVCByHostDisk, GetMountedHostDiskPath of
\* its name and HostDisk.Path is HostDisk.Path, which is
\* pvcBaseDir/volumeName/disk.img, GetMountedHostDiskDir of its name is the
\* containing directory, the volume satisfies shouldMountHostDisk, and the
\* pass of a following Create over it stats that path, probes that
\* directory and, when it allocates and succeeds, has the file there.
C10_PathAgreement ==
  /\ op = "Replace" =>
       \A i \in DOMAIN volumes :
         (start.volumes[i].PersistentVolumeClaim # Nil
            /\ volumes[i].PersistentVolumeClaim = Nil) =>
           LET n == volumes[i].Name
               hd == volumes[i].HostDisk
           IN  /\ hd # Nil
               /\ hd.Path = pvcBaseDir \o <<n, "disk.img">>
               /\ GetMountedHostDiskPath(n, hd.Path) = hd.Path
               /\ GetMountedHostDiskDir(n) = pvcBaseDir \o <<n>>
               /\ shouldMountHostDisk(hd)
  /\ (op = "Create" /\ prev.op = "Replace") =>
       \A k \in DOMAIN log :
         (prev.volumes[k].PersistentVolumeClaim # Nil
            /\ volumes[k].PersistentVolumeClaim = Nil) =>
           LET o == log[k].obs
               hd == volumes[k].HostDisk
           IN  /\ o.mounted /\ o.path = hd.Path
               /\ o.probed => o.dir = SubSeq(hd.Path, 1, Len(hd.Path) - 1)
               /\ (o.allocated /\ log[k].err = NoErr) =>
                    /\ hd.Path \in DOMAIN files
                    /\ files[hd.Path].size = o.allocSize

C10_Witness ==
  /\ op = "Create" /\ prev.op = "Replace" /\ pc = "idle" /\ ret = NoErr
  /\ \E k \in DOMAIN log :
       /\ prev.volumes[k].PersistentVolumeClaim # Nil
       /\ volumes[k].PersistentVolumeClaim = Nil
       /\ log[k].obs.allocated
       /\ volumes[k].HostDisk.Path = pvcBaseDir \o <<volumes[k].Name, "disk.img">>
       /\ volumes[k].HostDisk.Path \notin DOMAIN start.files
       /\ files[volumes[k].HostDisk.Path].size = SmallCap

\* A pass of Create shrank the image: it allocated fewer bytes than requested.
Shrunk(o) == o.allocated /\ o.allocSize < o.requested

\* The pass called the notifier once, with the given severity, reason
\* "ToleratedSmallPV" and a message stating the expected size, the found
\* size and the toleration percent.
OneShrinkEvent(o, severity) ==
  /\ Len(o.events) = 1
  /\ o.events[1].Type = severity
  /\ o.events[1].Reason = "ToleratedSmallPV"
  /\ o.events[1].expected = o.requested
  /\ o.events[1].found = o.available
  /\ o.events[1].toleration = hdc.lessPVCSpaceToleration

\* C11 (as stated): whenever Create shrinks an image to the available size,
\* the notifier is called once with reason "ToleratedSmallPV", severity
\* Warning and a message stating the expected size, the found size and the
\* toleration percent.
C11_ShrinkEventWarning ==
  op = "Create" =>
    \A k \in DOMAIN log : Shrunk(log[k].obs) => OneShrinkEvent(log[k].obs, "Warning")

\* C11 (amended): whenever Create shrinks an image to the available size,
\* the notifier is called once with reason "ToleratedSmallPV", severity
\* Normal and a message stating the expected size, the found size and the
\* toleration percent.
C11_ShrinkEventNormal ==
  op = "Create" =>
    \A k \in DOMAIN log : Shrunk(log[k].obs) => OneShrinkEvent(log[k].obs, "Normal")

C11_Witness ==
  /\ op = "Create" /\ pc = "idle" /\ ret = NoErr
  /\ hdc.lessPVCSpaceToleration = 5
  /\ \E k \in DOMAIN log :
       /\ Shrunk(log[k].obs) /\ log[k].err = NoErr
       /\ log[k].obs.requested = SmallCap
       /\ log[k].obs.available = SmallTolerated
       /\ log[k].obs.events[1].delivered
       /\ files[log[k].obs.path].size = SmallTolerated

\* The ToleratedSmallPV notifier calls of the running call: (pass, index).
Notifications ==
  UNION {{<<k, i>> : i \in {j \in DOMAIN log[k].obs.events :
                            log[k].obs.events[j].Reason = "ToleratedSmallPV"}} :
         k \in DOMAIN log}

\* The passes of the running call that created an image smaller than
\* requested: a new file of the size createSparseRaw was asked for (the
\* empty file a failed write leaves behind is not counted as created).
SmallImages ==
  {k \in DOMAIN log :
     /\ log[k].obs.allocated
     /\ log[k].obs.path \in DOMAIN files
     /\ log[k].obs.path \notin DOMAIN start.files
     /\ files[log[k].obs.path].size = log[k].obs.allocSize
     /\ files[log[k].obs.path].size < AsInt64(volumes[k].HostDisk.Capacity)}

\* No notification for a volume whose file existed, whose request fitted
\* in the available space or whose shortfall was refused.
QuietOtherwise ==
  \A k \in DOMAIN log :
    LET o == log[k].obs
    IN  (\/ o.existed
         \/ o.sized /\ o.requested <= o.available
         \/ log[k].err = "unable to create") => o.events = <<>>

\* C12 (as stated): over any Create call, the number of ToleratedSmallPV
\* notifications equals the number of images created with a size smaller
\* than their requested capacity, and none is sent for a volume whose file
\* existed, whose request fitted or whose shortfall was refused.
C12_EventPerSmallImage ==
  op = "Create" =>
    /\ Cardinality(Notifications) = Cardinality(SmallImages)
    /\ QuietOtherwise

\* C12 (amended): over any Create call, the number of ToleratedSmallPV
\* notifications equals the number of volumes for which the creation of an
\* image smaller than requested was attempted, each such image has the
\* shrunk size when its pass succeeds, and no notification is sent for a
\* volume whose file existed, whose request fitted or whose shortfall was
\* refused.
C12_EventPerShrinkAttempt ==
  op = "Create" =>
    /\ Cardinality(Notifications) =
         Cardinality({k \in DOMAIN log : Shrunk(log[k].obs)})
    /\ \A k \in DOMAIN log :
         (Shrunk(log[k].obs) /\ log[k].err = NoErr) =>
           /\ log[k].obs.path \in DOMAIN files
           /\ files[log[k].obs.path].size = log[k].obs.allocSize
    /\ QuietOtherwise

C12_Witness ==
  /\ op = "Create" /\ pc = "idle" /\ ret = NoErr /\ Len(log) = 2
  /\ Cardinality(Notifications) = 1
  /\ Shrunk(log[1].obs) /\ 1 \in SmallImages
  /\ log[2].obs.allocated /\ ~Shrunk(log[2].obs)

\* C13: a notifier failure never fails materialization: every pass whose
\* shortfall was not refused calls the notifier and goes on to create the
\* image with the available bytes whether or not SendK8sEvent succeeded;
\* when SendK8sEvent failed, the pass fails only if writing the file does,
\* and otherwise leaves the image with size equal to the available bytes,
\* goes on with the remaining volumes and Create returns nil unless a
\* later pass fails.
C13_NotifierFailureTolerated ==
  op = "Create" =>
    \A k \in DOMAIN log :
      LET o == log[k].obs
      IN  (o.sized /\ o.requested > o.available
             /\ log[k].err # "unable to create") =>
            /\ Len(o.events) = 1
            /\ o.allocated /\ o.allocSize = o.available
            /\ ~o.events[1].delivered =>
                 /\ log[k].err \in {NoErr, "negative offset"}
                 /\ log[k].err = NoErr =>
                      /\ o.path \in DOMAIN files
                      /\ files[o.path].size = o.available
                      /\ (pc = "idle" /\ k < Len(volumes)) => Len(log) > k
                      /\ (pc = "idle" /\ k = Len(log)) => ret = NoErr

C13_Witness ==
  /\ op = "Create" /\ pc = "idle" /\ ret = NoErr /\ Len(log) = 2
  /\ Len(log[1].obs.events) = 1 /\ ~log[1].obs.events[1].delivered
  /\ log[1].obs.available = SmallTolerated
  /\ files[log[1].obs.path].size = SmallTolerated
  /\ log[2].obs.allocated /\ log[2].obs.path \in DOMAIN files

\* C14: in ReplacePVCByHostDisk a "file does not exist" error of the
\* ownership normalization is ignored and the rewrite goes on with the next
\* volume; any other ownership error is returned as it is, at once: only
\* the last pass of a call can have failed, the call returns that pass's
\* error, never "not exist", a pass over a volume whose computed path has
\* no file ends without error, and after a failed call no later volume was
\* examined or changed.
C14_OwnershipErrors ==
  op = "Replace" =>
    /\ \A k \in DOMAIN log : k < Len(log) => log[k].err = NoErr
    /\ \A k \in DOMAIN log :
         (log[k].obs.mounted /\ log[k].obs.path \notin DOMAIN files) =>
           log[k].err = NoErr
    /\ \A k \in DOMAIN log : log[k].err \in {NoErr, "chown"}
    /\ pc = "idle" =>
         /\ ret = IF log = <<>> THEN NoErr ELSE log[Len(log)].err
         /\ ret = NoErr => Len(log) = Len(volumes)
         /\ ret # NoErr =>
              /\ Len(log) = idx
              /\ \A j \in (idx + 1)..Len(volumes) : volumes[j] = start.volumes[j]

C14_Witness ==
  /\ op = "Replace" /\ pc = "idle" /\ ret = "chown" /\ idx = 1
  /\ Len(volumes) = 2
  /\ volumes[1].HostDisk # Nil
  /\ Eligible(start.volumes[2]) /\ volumes[2].HostDisk = Nil

\* C20: the tolerated size is the truncating integer value of
\* requested * (100 - toleratePercent) / 100 for every requested capacity
\* representable as int64: in every pass that compared a request larger
\* than the available bytes, the tolerated size the code computed is that
\* value and does not exceed the request, and with toleratePercent 0 the
\* pass is refused with "unable to create" and nothing is created.
C20_ToleratedSizeExact ==
  op = "Create" =>
    \A k \in DOMAIN log :
      LET o == log[k].obs
          tol == hdc.lessPVCSpaceToleration
      IN  (o.sized /\ o.requested > o.available) =>
            /\ ToleratedSize(o.requested, tol) = SpecTolerated(o.requested, tol)
            /\ ToleratedSize(o.requested, tol) <= o.requested
            /\ tol = 0 =>
                 /\ log[k].err = "unable to create"
                 /\ ~o.allocated
                 /\ o.path \notin DOMAIN files

\* ------------------------------------------------------ resource versions
\* A resource version is a string, modelled as its sequence of characters.
\* strconv.ParseInt(s, 10, 32): an optional sign, then decimal digits only;
\* the value must fit 32 bits.  The magnitude is accumulated as a negative
\* number so that the smallest int32 is reached without overflow.
BitSize == 32

MaxInt32 == (2 ^ (BitSize - 2) - 1) * 2 + 1

MinInt32 == (-MaxInt32) - 1

Digits == <<"0", "1", "2", "3", "4", "5", "6", "7", "8", "9">>

IsDigit(c) == \E i \in DOMAIN Digits : Digits[i] = c

DigitVal(c) == (CHOOSE i \in DOMAIN Digits : Digits[i] = c) - 1

\* The negated magnitude of a digit string, or 1 when it is out of range.
RECURSIVE NegMagnitude(_, _)
NegMagnitude(digits, acc) ==
  IF digits = <<>> THEN acc
  ELSE LET d == DigitVal(Head(digits))
       IN  IF acc < (MinInt32 + d + 9) \div 10 THEN 1
           ELSE NegMagnitude(Tail(digits), acc * 10 - d)

ParseInt(str) ==
  IF str = <<>> THEN [val |-> 0, err |-> "syntax"]
  ELSE LET neg == Head(str) = "-"
           body == IF Head(str) \in {"+", "-"} THEN Tail(str) ELSE str
           m == NegMagnitude(body, 0)
       IN  IF body = <<>> \/ \E i \in DOMAIN body : ~IsDigit(body[i])
           THEN [val |-> 0, err |-> "syntax"]
           ELSE IF m = 1 \/ (~neg /\ m = MinInt32)
           THEN [val |-> IF neg THEN MinInt32 ELSE MaxInt32, err |-> "range"]
           ELSE [val |-> IF neg THEN m ELSE -m, err |-> NoErr]

\* Mutant: a config version equal to the resource version is refused.
ExpectResourceVersionToBeLessStrictly(resourceVersion, configVersion) ==
  LET rv == ParseInt(resourceVersion)
      crv == ParseInt(configVersion)
  IN  IF rv.err # NoErr THEN FALSE
      ELSE IF crv.err # NoErr THEN FALSE
      ELSE IF rv.val >= crv.val THEN FALSE
      ELSE TRUE

ExpectResourceVersionToBeLessThanConfigVersion(resourceVersion, configVersion) ==
  LET rv == ParseInt(resourceVersion)
      crv == ParseInt(configVersion)
  IN  IF rv.err # NoErr THEN FALSE
      ELSE IF crv.err # NoErr THEN FALSE
      ELSE IF rv.val > crv.val THEN FALSE
      ELSE TRUE

\* The characters of the model's strings in byte order; Go compares strings
\* byte by byte, a proper prefix being smaller.
Alphabet == <<"+", "-", "0", "1", "2", "3", "4", "5", "6", "7", "8", "9", "x">>

Ord(c) == CHOOSE i \in DOMAIN Alphabet : Alphabet[i] = c

RECURSIVE StringGreater(_, _)
StringGreater(a, b) ==
  IF a = <<>> THEN FALSE
  ELSE IF b = <<>> THEN TRUE
  ELSE IF Head(a) # Head(b) THEN Ord(Head(a)) > Ord(Head(b))
  ELSE StringGreater(Tail(a), Tail(b))

ExpectResourceVersionToBeEqualConfigVersion(resourceVersion, configVersion) ==
  IF StringGreater(resourceVersion, configVersion) THEN FALSE ELSE TRUE

\* Mutant: both policies compare the strings.
compareLexically(cmp, resourceVersion, configVersion) ==
  ExpectResourceVersionToBeEqualConfigVersion(resourceVersion, configVersion)

\* compareResourceVersions(resourceVersion, configVersion) for a policy.
compare(cmp, resourceVersion, configVersion) ==
  IF cmp = "LessThan"
  THEN ExpectResourceVersionToBeLessThanConfigVersion(resourceVersion, configVersion)
  ELSE ExpectResourceVersionToBeEqualConfigVersion(resourceVersion, configVersion)

\* ------------------------------------------------------ convergence waiter
\* The component classes in the order waitForConfigToBePropagated waits.
Components == <<"virt-controller", "virt-api", "virt-handler">>

\* A label selector "kubevirt.io=<component>", as prefix and rest.
podLabel(c) == <<"kubevirt.io=", Components[c]>>

\* strings.TrimPrefix
TrimPrefix(str, prefix) ==
  IF Len(str) >= Len(prefix) /\ SubSeq(str, 1, Len(prefix)) = prefix
  THEN SubSeq(str, Len(prefix) + 1, Len(str))
  ELSE str

errComponentInfo(label) == TrimPrefix(label, <<"kubevirt.io=">>)

\* The errors of a poll iteration: the text fmt.Errorf formats and the
\* values it puts into it.
\* Mutant: the two versions are formatted in the other order.
PollErrorSwapped(text, component, pod, resourceVersion, configVersion) ==
  [text |-> text, component |-> component, pod |-> pod,
   resourceVersion |-> configVersion, configVersion |-> resourceVersion]

PollError(text, component, pod, resourceVersion, configVersion) ==
  [text |-> text, component |-> component, pod |-> pod,
   resourceVersion |-> resourceVersion, configVersion |-> configVersion]

\* What the health endpoint of a pod answers: the call fails, or the body
\* is not JSON, or it is a JSON object whose "config-resource-version" is
\* absent, not a string, or a string.
Unreachable == [reachable |-> FALSE, body |-> "none", field |-> "absent", value |-> <<>>]

Garbage == [reachable |-> TRUE, body |-> "garbage", field |-> "absent", value |-> <<>>]

NoField == [reachable |-> TRUE, body |-> "object", field |-> "absent", value |-> <<>>]

NonString == [reachable |-> TRUE, body |-> "object", field |-> "number", value |-> <<>>]

Version(v) == [reachable |-> TRUE, body |-> "object", field |-> "string", value |-> v]

\* The loop over pods.Items of one poll iteration, from item k on: the
\* error returned (Nil for nil), whether the type assertion panicked, and
\* the items whose health endpoint was called.
RECURSIVE pollItems(_, _, _, _, _)
pollItems(items, k, label, resourceVersion, cmp) ==
  IF k > Len(items) THEN [err |-> Nil, panicked |-> FALSE, calls |-> {}]
  ELSE
    LET pod == items[k]
        component == errComponentInfo(label)
        rest == pollItems(items, k + 1, label, resourceVersion, cmp)
        stop(text) ==
          [err |-> PollError(text, component, pod.Name, <<>>, <<>>),
           panicked |-> FALSE, calls |-> {k}]
    IN  IF pod.Deleting THEN rest
        ELSE IF ~pod.Resp.reachable
        THEN stop("failed to call healthz endpoint")
        ELSE IF pod.Resp.body # "object"
        THEN stop("failed to parse response from healthz endpoint")
        ELSE IF pod.Resp.field # "string"
        THEN [err |-> Nil, panicked |-> TRUE, calls |-> {k}]
        ELSE IF ~compare(cmp, resourceVersion, pod.Resp.value)
        THEN [err |-> PollError("resource & config versions are not as expected",
                                component, pod.Name, resourceVersion,
                                pod.Resp.value),
              panicked |-> FALSE, calls |-> {k}]
        ELSE [rest EXCEPT !.calls = @ \cup {k}]

\* Mutant: pods with a deletion timestamp are polled like the others.
pollOnceWithTerminating(items, label, resourceVersion, cmp, fault) ==
  IF fault = "list"
  THEN [err |-> PollError("failed to fetch pods", errComponentInfo(label),
                          <<>>, <<>>, <<>>),
        panicked |-> FALSE, calls |-> {}]
  ELSE pollItems([i \in DOMAIN items |-> [items[i] EXCEPT !.Deleting = FALSE]],
                 1, label, resourceVersion, cmp)

\* The function Eventually polls.
pollOnce(items, label, resourceVersion, cmp, fault) ==
  IF fault = "list"
  THEN [err |-> PollError("failed to fetch pods", errComponentInfo(label),
                          <<>>, <<>>, <<>>),
        panicked |-> FALSE, calls |-> {}]
  ELSE pollItems(items, 1, label, resourceVersion, cmp)

\* Eventually(f, 10*time.Second, 1*time.Second)
Timeout == 10

PollingInterval == 1

\* Bounds of the waiter's environment: pods in the cluster, seconds one
\* poll iteration can take, changes of the pods during a run.
MaxPods == 2

MaxPollSeconds == 1

MaxChanges == 1

V5 == <<"5">>

V10 == <<"1", "0">>

V12 == <<"1", "2">>

Targets == {V10}

Pod(c, i, deleting, resp) ==
  [Name |-> <<Components[c], i>>, Deleting |-> deleting, Resp |-> resp]

\* The pods a class starts with: in sync, behind, or terminating.
PodKinds ==
  {[Deleting |-> FALSE, Resp |-> Version(V10)],
   [Deleting |-> FALSE, Resp |-> Version(V5)],
   [Deleting |-> TRUE, Resp |-> Unreachable]}

\* What a pod can change to during a wait.
RespChoices == {Version(V5), Version(V12), Unreachable, Garbage, NoField, NonString}

\* The pod lists of length n of class c.
RECURSIVE PodLists(_, _)
PodLists(c, n) ==
  IF n = 0 THEN {<<>>}
  ELSE {Append(l, Pod(c, n, k.Deleting, k.Resp)) : l \in PodLists(c, n - 1),
                                                  k \in PodKinds}

\* The clusters of at most MaxPods pods.
Clusters ==
  UNION {{<<a, b, d>> : a \in PodLists(1, n[1]), b \in PodLists(2, n[2]),
                        d \in PodLists(3, n[3])} :
         n \in {t \in (0..MaxPods) \X (0..MaxPods) \X (0..MaxPods) :
                  t[1] + t[2] + t[3] <= MaxPods}}

\* The clusters in which one class at most has pods.
OneClassClusters ==
  {ps \in Clusters : Cardinality({c \in DOMAIN ps : ps[c] # <<>>}) <= 1}

\* No host disk is materialized or rewritten.
NoHostDisk ==
  /\ volumes = <<>> /\ volumeStatus = <<>> /\ fsDevices = <<>>
  /\ hdc = NewHostDiskCreator(0, 0) /\ files = NoFiles
  /\ op = "none" /\ pc = "idle" /\ idx = 0 /\ ret = NoErr /\ log = <<>>
  /\ start = [files |-> files, volumes |-> volumes]
  /\ prev = [op |-> "none", ret |-> NoErr, at |-> 0, files |-> files,
              volumes |-> volumes]
  /\ calls = 0

\* The waiter before any wait, in a cluster of the given set.
WaiterInit(clusters) ==
  /\ pods \in clusters
  /\ wmode = "none" /\ target = <<>> /\ policy = "LessThan"
  /\ comp = 0 /\ wpc = "idle"
  /\ wstate = [c \in DOMAIN Components |-> "NotStarted"]
  /\ clock = 0
  /\ polled = {}
  /\ lastPoll = Nil /\ failure = Nil /\ called = {} /\ changes = 0

InitWait == NoHostDisk /\ WaiterInit(OneClassClusters) /\ NoUpdate /\ NoWatch

InitPropagate == NoHostDisk /\ WaiterInit(Clusters) /\ NoUpdate /\ NoWatch

\* WaitForConfigToBePropagatedToComponent begins for class c.
StartClass(c) ==
  /\ comp' = c
  /\ wstate' = [wstate EXCEPT ![c] = "Polling"]
  /\ clock' = 0
  /\ wpc' = "poll"

\* WaitForConfigToBePropagatedToComponent(podLabel, resourceVersion, cmp)
\* is called for one class.
ComponentWaitBegin ==
  /\ wmode = "none"
  /\ \E c \in DOMAIN Components, t \in Targets, p \in {"LessThan", "Equal"} :
       /\ wmode' = "component"
       /\ target' = t
       /\ policy' = p
       /\ StartClass(c)
  /\ UNCHANGED <<pods, polled, lastPoll, failure, called, changes>>
  /\ UNCHANGED <<hvars, uvars, evars>>

\* waitForConfigToBePropagated(resourceVersion) is called.
PropagatedBegin ==
  /\ wmode = "none"
  /\ \E t \in Targets :
       /\ wmode' = "all"
       /\ target' = t
       /\ policy' = "LessThan"
       /\ StartClass(1)
  /\ UNCHANGED <<pods, polled, lastPoll, failure, called, changes>>
  /\ UNCHANGED <<hvars, uvars, evars>>

\* Eventually runs one poll iteration, which takes d seconds: a nil error
\* ends the wait, a panic leaves it, any other error is kept for later.
Poll ==
  /\ wpc = "poll"
  /\ \E fault \in {"none", "list"}, d \in 0..MaxPollSeconds :
       LET r == pollOnce(pods[comp], podLabel(comp), target, policy, fault)
       IN  /\ clock' = clock + d
           /\ polled' = polled \cup {comp}
           /\ lastPoll' = [fault |-> fault, err |-> r.err, panicked |-> r.panicked]
           /\ called' = called \cup {<<comp, k>> : k \in r.calls}
           /\ wstate' = [wstate EXCEPT ![comp] =
                           IF r.panicked THEN "Panicked"
                           ELSE IF r.err = Nil THEN "Converged" ELSE @]
           /\ wpc' = IF r.panicked THEN "failed"
                     ELSE IF r.err = Nil THEN "returned" ELSE "select"
  /\ UNCHANGED <<pods, wmode, target, policy, comp, failure, changes>>
  /\ UNCHANGED <<hvars, uvars, evars>>

\* The polling interval elapses before the timeout: the next poll is due.
Retry ==
  /\ wpc = "select"
  /\ clock + PollingInterval <= Timeout
  /\ clock' = clock + PollingInterval
  /\ wpc' = "poll"
  /\ UNCHANGED <<pods, wmode, target, policy, comp, wstate, polled, lastPoll,
                 failure, called, changes>>
  /\ UNCHANGED <<hvars, uvars, evars>>

\* The timeout elapses first: the wait fails with the last poll's error.
TimeOut ==
  /\ wpc = "select"
  /\ clock + PollingInterval >= Timeout
  /\ clock' = IF clock < Timeout THEN Timeout ELSE clock
  /\ wstate' = [wstate EXCEPT ![comp] = "TimedOut"]
  /\ failure' = lastPoll.err
  /\ wpc' = "failed"
  /\ UNCHANGED <<pods, wmode, target, policy, comp, polled, lastPoll, called,
                 changes>>
  /\ UNCHANGED <<hvars, uvars, evars>>

\* Mutant: waitForConfigToBePropagated returns after the first class.
ClassReturnsAfterFirst ==
  /\ wpc = "returned"
  /\ wpc' = "done" /\ UNCHANGED <<comp, wstate, clock>>
  /\ UNCHANGED <<pods, wmode, target, policy, polled, lastPoll, failure, called,
                 changes>>
  /\ UNCHANGED <<hvars, uvars, evars>>

\* The wait of a class returned: waitForConfigToBePropagated goes on with
\* the next class, and returns after the last.
ClassReturns ==
  /\ wpc = "returned"
  /\ IF wmode = "all" /\ comp < Len(Components)
     THEN StartClass(comp + 1)
     ELSE wpc' = "done" /\ UNCHANGED <<comp, wstate, clock>>
  /\ UNCHANGED <<pods, wmode, target, policy, polled, lastPoll, failure, called,
                 changes>>
  /\ UNCHANGED <<hvars, uvars, evars>>

\* The environment: a pod answers differently from now on, or starts to
\* terminate.
PodChanges ==
  /\ wpc \in {"poll", "select", "returned"}
  /\ changes < MaxChanges
  /\ changes' = changes + 1
  /\ \E c \in DOMAIN pods : \E i \in DOMAIN pods[c] :
       \/ \E r \in RespChoices \ {pods[c][i].Resp} :
            pods' = [pods EXCEPT ![c][i].Resp = r]
       \/ /\ ~pods[c][i].Deleting
          /\ pods' = [pods EXCEPT ![c][i].Deleting = TRUE]
  /\ UNCHANGED <<wmode, target, policy, comp, wpc, wstate, clock, polled,
                 lastPoll, failure, called>>
  /\ UNCHANGED <<hvars, uvars, evars>>

NextWait == ComponentWaitBegin \/ Poll \/ Retry \/ TimeOut \/ ClassReturns \/ PodChanges

SpecWait == InitWait /\ [][NextWait]_vars

NextPropagate == PropagatedBegin \/ Poll \/ Retry \/ TimeOut \/ ClassReturns \/ PodChanges

SpecPropagate == InitPropagate /\ [][NextPropagate]_vars

\* The versions above v among those the pods report.
Newer(v) == IF v = V5 THEN {V10, V12} ELSE IF v = V10 THEN {V12} ELSE {}

\* The environment when versions only grow: a pod that reports a version
\* reports a newer one from now on; no pod appears or terminates.
PodAdvances ==
  /\ wpc \in {"poll", "select", "returned"}
  /\ changes < MaxChanges
  /\ changes' = changes + 1
  /\ \E c \in DOMAIN pods : \E i \in DOMAIN pods[c] :
       /\ pods[c][i].Resp.reachable /\ pods[c][i].Resp.field = "string"
       /\ \E v \in Newer(pods[c][i].Resp.value) :
            pods' = [pods EXCEPT ![c][i].Resp = Version(v)]
  /\ UNCHANGED <<wmode, target, policy, comp, wpc, wstate, clock, polled,
                 lastPoll, failure, called>>
  /\ UNCHANGED <<hvars, uvars, evars>>

NextMonotone ==
  PropagatedBegin \/ Poll \/ Retry \/ TimeOut \/ ClassReturns \/ PodAdvances

SpecMonotone == InitPropagate /\ [][NextMonotone]_vars

----------------------------------------------------------------------------
\* Updates of the cluster configuration (tests/utils.go)

\* Bound on config.GinkgoConfig.ParallelTotal.
MaxParallelTotal == 2

\* Configuration contents.
Values == {"a", "b"}

\* KubeVirtDefaultConfig: the configuration found when the suite started.
KubeVirtDefaultConfig == "a"

\* The resource version the API server gives an updated object.
NextVersion(v) == IF v = V5 THEN V10 ELSE V12

\* The configuration objects: the kubevirt-config config map (cm), the
\* KubeVirt custom resource (kv) and the CDI config map (cdi).
Stores ==
  { [cm |-> [value |-> a, version |-> V5],
     kv |-> [value |-> b, version |-> V5],
     cdi |-> "b"] : a \in Values, b \in Values }

\* Mutant: no function looks at ParallelTotal.
UpdateOutcomeUnserialized(fn, total, current, requested, fault) ==
  IF fault = "get" THEN "failed"
  ELSE IF current = requested THEN "same"
  ELSE IF fault = "update" THEN "failed"
  ELSE "updated"

\* What a call of UpdateClusterConfigValueAndWait ("cluster") or of
\* UpdateKubeVirtConfigValueAndWait ("kubevirt") does, in the order of their
\* checks: "failed" (Fail, a failed expectation or a panic ends the call),
\* "same" (returns without update) or "updated".
UpdateOutcome(fn, total, current, requested, fault) ==
  IF fn = "cluster"
  THEN IF total > 1 THEN "failed"
       ELSE IF fault = "get" THEN "failed"
       ELSE IF current = requested THEN "same"
       ELSE IF fault = "update" THEN "failed"
       ELSE "updated"
  ELSE IF fault = "get" THEN "failed"
       ELSE IF current = requested THEN "same"
       ELSE IF total > 1 THEN "failed"
       ELSE IF fault = "update" THEN "failed"
       ELSE "updated"

\* A nil *k8sv1.ConfigMap.
NoConfigMap == "nil"

\* UpdateCDIConfigMap(cdiConfig) on the CDI config map holding cdi.
UpdateCDIConfigMap(cdi, cdiConfig, total, fault) ==
  IF cdiConfig = NoConfigMap THEN [cdi |-> cdi, failed |-> FALSE]
  ELSE IF fault = "get" THEN [cdi |-> cdi, failed |-> TRUE]
  ELSE IF cdi = cdiConfig THEN [cdi |-> cdi, failed |-> FALSE]
  ELSE IF total > 1 THEN [cdi |-> cdi, failed |-> TRUE]
  ELSE IF fault = "update" THEN [cdi |-> cdi, failed |-> TRUE]
  ELSE [cdi |-> cdiConfig, failed |-> FALSE]

ApiFaults == {"none", "get", "update"}

\* The rest of resetToDefaultConfig once UpdateKubeVirtConfigValueAndWait
\* has returned: UpdateCDIConfigMap(CDIInsecureRegistryConfig).
ResetFinish(u) ==
  \E cdiConfig \in {NoConfigMap, "a"}, fault \in ApiFaults :
    LET r == UpdateCDIConfigMap(store.cdi, cdiConfig, parallelTotal, fault)
    IN /\ store' = [store EXCEPT !.cdi = r.cdi]
       /\ upd' = [u EXCEPT !.phase = IF r.failed THEN "failed" ELSE "returned"]

\* A call of fn for object obj ("cm" or "kv") with the requested contents:
\* the checks, the update, and the start of waitForConfigToBePropagated
\* for the resource version the update returned.
UpdateCall(fn, obj, requested, fault) ==
  LET kind == IF fn = "cluster" THEN "cluster" ELSE "kubevirt"
      out == UpdateOutcome(kind, parallelTotal, store[obj].value, requested,
                           fault)
      version == NextVersion(store[obj].version)
      u == [fn |-> fn, obj |-> obj, requested |-> requested, before |-> store,
            phase |-> "failed", issued |-> <<>>]
  IN /\ wmode = "none" /\ upd = Nil
     /\ CASE out = "updated" ->
               /\ store' = [store EXCEPT ![obj] = [value |-> requested,
                                                   version |-> version]]
               /\ upd' = [u EXCEPT !.phase = "waiting",
                                   !.issued = <<[obj |-> obj,
                                                 value |-> requested,
                                                 version |-> version]>>]
               /\ wmode' = "all"
               /\ target' = version
               /\ policy' = "LessThan"
               /\ StartClass(1)
               /\ UNCHANGED <<pods, polled, lastPoll, failure, called, changes>>
          [] out = "same" ->
               /\ IF fn = "reset"
                  THEN ResetFinish([u EXCEPT !.phase = "returned"])
                  ELSE /\ upd' = [u EXCEPT !.phase = "returned"]
                       /\ UNCHANGED store
               /\ UNCHANGED wvars
          [] OTHER ->
               /\ upd' = u
               /\ UNCHANGED <<store, wvars>>
     /\ UNCHANGED <<hvars, parallelTotal, evars>>

UpdateClusterConfigValueAndWait ==
  /\ upd = Nil
  /\ \E value \in Values, fault \in ApiFaults :
       UpdateCall("cluster", "cm", value, fault)

UpdateKubeVirtConfigValueAndWait ==
  /\ upd = Nil
  /\ \E kvConfig \in Values, fault \in ApiFaults :
       UpdateCall("kubevirt", "kv", kvConfig, fault)

\* resetToDefaultConfig: nothing when the suite runs in parallel.
resetToDefaultConfig ==
  /\ upd = Nil
  /\ IF parallelTotal > 1
     THEN /\ wmode = "none"
          /\ upd' = [fn |-> "reset", obj |-> "kv",
                     requested |-> KubeVirtDefaultConfig, before |-> store,
                     phase |-> "returned", issued |-> <<>>]
          /\ UNCHANGED <<hvars, wvars, parallelTotal, store, evars>>
     ELSE \E fault \in ApiFaults :
            UpdateCall("reset", "kv", KubeVirtDefaultConfig, fault)

\* waitForConfigToBePropagated has returned to the updating function,
\* which returns (after the CDI update, in resetToDefaultConfig).
UpdateReturns ==
  /\ upd # Nil /\ upd.phase = "waiting" /\ wpc = "done"
  /\ IF upd.fn = "reset"
     THEN ResetFinish(upd)
     ELSE upd' = [upd EXCEPT !.phase = "returned"] /\ UNCHANGED store
  /\ UNCHANGED <<hvars, wvars, parallelTotal, evars>>

InitUpdate ==
  /\ NoHostDisk /\ WaiterInit(Clusters)
  /\ parallelTotal \in 1..MaxParallelTotal
  /\ store \in Stores
  /\ upd = Nil
  /\ NoWatch

NextUpdate ==
  \/ UpdateClusterConfigValueAndWait
  \/ UpdateKubeVirtConfigValueAndWait
  \/ resetToDefaultConfig
  \/ UpdateReturns
  \/ Poll \/ Retry \/ TimeOut \/ ClassReturns \/ PodChanges

SpecUpdate == InitUpdate /\ [][NextUpdate]_vars

----------------------------------------------------------------------------
\* The comparison policies over resource versions of any size

\* The largest version strconv.ParseInt(s, 10, 32) accepts, and the next.
VMax32 == <<"2", "1", "4", "7", "4", "8", "3", "6", "4", "7">>

VBeyond32 == <<"2", "1", "4", "7", "4", "8", "3", "6", "4", "8">>

VNotANumber == <<"1", "x">>

\* Resource versions handed to the waiter and reported by pods.
VersionSamples == {V5, V10, VMax32, VBeyond32, VNotANumber, <<>>}

\* The clusters of one class whose pods report sample versions.
RECURSIVE SampleLists(_, _)
SampleLists(c, n) ==
  IF n = 0 THEN {<<>>}
  ELSE {Append(l, Pod(c, n, FALSE, Version(v))) : l \in SampleLists(c, n - 1),
                                                 v \in VersionSamples}

SampleClusters ==
  UNION {{[c \in DOMAIN Components |-> IF c = k THEN l ELSE <<>>] :
            l \in SampleLists(k, n)} :
         k \in DOMAIN Components, n \in 1..MaxPods}

InitCompare == NoHostDisk /\ WaiterInit(SampleClusters) /\ NoUpdate /\ NoWatch

\* WaitForConfigToBePropagatedToComponent(podLabel, resourceVersion, cmp)
\* is called with any resource version.
WaitForConfigToBePropagatedToComponent ==
  /\ wmode = "none"
  /\ \E c \in DOMAIN Components, t \in VersionSamples,
        p \in {"LessThan", "Equal"} :
       /\ pods[c] # <<>>
       /\ wmode' = "component"
       /\ target' = t
       /\ policy' = p
       /\ StartClass(c)
  /\ UNCHANGED <<pods, polled, lastPoll, failure, called, changes>>
  /\ UNCHANGED <<hvars, uvars, evars>>

NextCompare ==
  WaitForConfigToBePropagatedToComponent \/ Poll \/ Retry \/ TimeOut
    \/ ClassReturns

SpecCompare == InitCompare /\ [][NextCompare]_vars

----------------------------------------------------------------------------
\* ObjectEventWatcher (tests/utils.go)

\* Bounds: the watch events of one stream, the calls on one watcher.
MaxEvents == 2

MaxWatches == 2

\* The watch events of a stream: events of the watched object, by type and
\* reason, and the error event of the watch.
EventChoices ==
  {[kind |-> "Event", Type |-> "Normal", Reason |-> "Started"],
   [kind |-> "Event", Type |-> "Warning", Reason |-> "Started"],
   [kind |-> "Event", Type |-> "Normal", Reason |-> "Other"],
   [kind |-> "Error", Type |-> "", Reason |-> ""]}

Streams == UNION {[1..n -> EventChoices] : n \in 0..MaxEvents}

\* The (eventType, reason) pairs WaitFor and WaitNotFor are called with.
Wants ==
  {[Type |-> "Normal", Reason |-> "Started"],
   [Type |-> "Warning", Reason |-> "Started"]}

\* The watchers the builder methods make from NewObjectEventWatcher:
\* SinceNow or none, Timeout or none, SetWarningsPolicy or none (with an
\* empty WarningsIgnoreList).
Watchers ==
  {[startType |-> s, timeout |-> t,
    warningPolicy |-> [FailOnWarnings |-> f],
    dontFailOnMissingEvent |-> FALSE] :
   s \in {"invalidWatch", "watchSinceNow"}, t \in {"nil", "set"},
   f \in BOOLEAN}

\* The test of the process functions of WaitFor and WaitNotFor.
Matches(event, want) ==
  event.Type = want.Type /\ event.Reason = want.Reason

\* What the goroutine does with one watch event: "error" (Fail on an error
\* event), "warning" (the expectation of the warning policy fails),
\* "rejected" (the process function returns false), "unexpected" (the
\* process function of WaitNotFor sets e and calls Fail), "accepted" (the
\* process function of WaitFor sets e and returns true).
Handle(fn, w, want, event) ==
  IF event.kind = "Error" THEN "error"
  ELSE IF w.warningPolicy.FailOnWarnings /\ event.Type = "Warning"
  THEN "warning"
  ELSE IF ~Matches(event, want) THEN "rejected"
  ELSE IF fn = "WaitNotFor" THEN "unexpected"
  ELSE "accepted"

Idle ==
  [pc |-> "idle", fn |-> "none", want |-> [Type |-> "", Reason |-> ""],
   by |-> "none", e |-> 0, calls |-> 0]

NoProc == [pc |-> "none", e |-> 0, closes |-> 0]

Quiet == [done |-> FALSE, ctx |-> FALSE, timer |-> FALSE]

InitWatch ==
  /\ NoHostDisk /\ NoWait /\ NoUpdate
  /\ watcher \in Watchers
  /\ sent = <<>> /\ pending = <<>> /\ delivered = <<>>
  /\ wmain = Idle /\ wproc = NoProc /\ signals = Quiet

\* w.Watch(ctx, processFunc, ...) is called from fn: it refuses an unset
\* start type; otherwise it opens the stream, starts the goroutine and
\* selects.
Watch(fn, w) ==
  /\ wmain.pc \in {"idle", "returned"}
  /\ wproc.pc \in {"none", "stopped", "panicked"}
  /\ wmain.calls < MaxWatches
  /\ watcher' = w
  /\ delivered' = <<>>
  /\ signals' = Quiet
  /\ \E want \in Wants :
       IF w.startType = "invalidWatch"
       THEN /\ wmain' = [pc |-> "failed", fn |-> fn, want |-> want,
                         by |-> "startType", e |-> 0,
                         calls |-> wmain.calls + 1]
            /\ wproc' = NoProc
            /\ sent' = <<>> /\ pending' = <<>>
       ELSE /\ wmain' = [pc |-> "select", fn |-> fn, want |-> want,
                         by |-> "none", e |-> 0, calls |-> wmain.calls + 1]
            /\ wproc' = [pc |-> "range", e |-> 0, closes |-> 0]
            /\ \E stream \in Streams : sent' = stream /\ pending' = stream
  /\ UNCHANGED <<hvars, wvars, uvars>>

WaitFor ==
  /\ wmain.pc # "failed"
  /\ Watch("WaitFor", watcher)

WaitNotFor ==
  /\ wmain.pc # "failed"
  /\ Watch("WaitNotFor", [watcher EXCEPT !.dontFailOnMissingEvent = TRUE])

\* The goroutine receives the next watch event and handles it.
Deliver ==
  /\ wproc.pc = "range" /\ pending # <<>>
  /\ LET event == Head(pending)
         at == Len(delivered) + 1
         out == Handle(wmain.fn, watcher, wmain.want, event)
     IN  /\ pending' = Tail(pending)
         /\ delivered' = Append(delivered, [event |-> event, outcome |-> out])
         /\ wproc' = [wproc EXCEPT
                        !.pc = IF out = "accepted" THEN "closing"
                               ELSE IF out = "rejected" THEN "range"
                               ELSE "panicked",
                        !.e = IF out \in {"accepted", "unexpected"}
                              THEN at ELSE @]
  /\ UNCHANGED <<watcher, sent, wmain, signals>>
  /\ UNCHANGED <<hvars, wvars, uvars>>

\* Mutant: the goroutine goes on with the stream after close(done).
CloseDoneAndGoOn ==
  /\ wproc.pc = "closing"
  /\ wproc' = [wproc EXCEPT !.pc = "range", !.closes = @ + 1]
  /\ signals' = [signals EXCEPT !.done = TRUE]
  /\ UNCHANGED <<watcher, sent, pending, delivered, wmain>>
  /\ UNCHANGED <<hvars, wvars, uvars>>

\* The process function returned true: close(done) and break.
CloseDone ==
  /\ wproc.pc = "closing"
  /\ wproc' = [wproc EXCEPT !.pc = "stopped", !.closes = @ + 1]
  /\ signals' = [signals EXCEPT !.done = TRUE]
  /\ UNCHANGED <<watcher, sent, pending, delivered, wmain>>
  /\ UNCHANGED <<hvars, wvars, uvars>>

\* The result channel is closed (by the server, or by eventWatcher.Stop
\* once Watch is over): the range loop ends.
StreamEnds ==
  /\ wproc.pc = "range"
  /\ wproc' = [wproc EXCEPT !.pc = "stopped"]
  /\ UNCHANGED <<watcher, sent, pending, delivered, wmain, signals>>
  /\ UNCHANGED <<hvars, wvars, uvars>>

\* The context is cancelled.
Cancel ==
  /\ wmain.pc = "select" /\ ~signals.ctx
  /\ signals' = [signals EXCEPT !.ctx = TRUE]
  /\ UNCHANGED <<watcher, sent, pending, delivered, wmain, wproc>>
  /\ UNCHANGED <<hvars, wvars, uvars>>

\* time.After(*w.timeout) fires.
TimerFires ==
  /\ wmain.pc = "select" /\ watcher.timeout = "set" /\ ~signals.timer
  /\ signals' = [signals EXCEPT !.timer = TRUE]
  /\ UNCHANGED <<watcher, sent, pending, delivered, wmain, wproc>>
  /\ UNCHANGED <<hvars, wvars, uvars>>

\* Watch is over in the way "by"; WaitFor or WaitNotFor returns e unless
\* Fail was called.
WatchEnds(by, failed) ==
  /\ wmain' = [wmain EXCEPT !.pc = IF failed THEN "failed" ELSE "returned",
                            !.by = by,
                            !.e = IF failed THEN 0 ELSE wproc.e]
  /\ UNCHANGED <<watcher, sent, pending, delivered, wproc, signals>>
  /\ UNCHANGED <<hvars, wvars, uvars>>

\* case <-done
WatchDone ==
  /\ wmain.pc = "select" /\ signals.done
  /\ WatchEnds("done", FALSE)

\* case <-ctx.Done()
WatchCancelled ==
  /\ wmain.pc = "select" /\ signals.ctx
  /\ WatchEnds("ctx", FALSE)

\* case <-time.After(*w.timeout)
WatchTimedOut ==
  /\ wmain.pc = "select" /\ signals.timer
  /\ WatchEnds("timeout", ~watcher.dontFailOnMissingEvent)

NextWatch ==
  \/ WaitFor \/ WaitNotFor
  \/ Deliver \/ CloseDone \/ StreamEnds
  \/ Cancel \/ TimerFires
  \/ WatchDone \/ WatchCancelled \/ WatchTimedOut

SpecWatch == InitWatch /\ [][NextWatch]_vars

\* An unsigned decimal numeral without its leading zeros.
RECURSIVE StripZeros(_)
StripZeros(str) ==
  IF Len(str) > 1 /\ Head(str) = "0" THEN StripZeros(Tail(str)) ELSE str

\* str is a non-empty string of decimal digits.
IsNumeral(str) ==
  /\ str # <<>>
  /\ \A i \in DOMAIN str : str[i] \in {"0", "1", "2", "3", "4", "5", "6", "7", "8", "9"}

\* The numeral observed denotes a number at least that of the numeral
\* wanted, whatever their sizes.
NumericallyAtLeast(observed, wanted) ==
  LET o == StripZeros(observed)
      w == StripZeros(wanted)
  IN  /\ IsNumeral(observed) /\ IsNumeral(wanted)
      /\ \/ Len(o) > Len(w)
         \/ Len(o) = Len(w) /\ ~StringGreater(w, o)

\* A pod's answer satisfies the wait: a string version for which the
\* policy holds, numerically at least the target under the default policy.
Satisfies(p) ==
  /\ p.Resp.reachable /\ p.Resp.body = "object" /\ p.Resp.field = "string"
  /\ IF policy = "LessThan"
     THEN NumericallyAtLeast(p.Resp.value, target)
     ELSE ExpectResourceVersionToBeEqualConfigVersion(target, p.Resp.value)

\* Every non-terminating pod of class c satisfies the wait.
AllMatch(c) ==
  \A i \in DOMAIN pods[c] : ~pods[c][i].Deleting => Satisfies(pods[c][i])

\* This step is a poll iteration.
PollStep == wpc = "poll" /\ wpc' # "poll"

Behind(c) ==
  {i \in DOMAIN pods[c] :
     /\ ~pods[c][i].Deleting
     /\ pods[c][i].Resp.reachable /\ pods[c][i].Resp.body = "object"
     /\ pods[c][i].Resp.field = "string"
     /\ ~Satisfies(pods[c][i])}

\* C16 (as stated): if a non-terminating pod of the class reports a version
\* that fails the comparison in every poll iteration until the timeout,
\* the wait never reports success and fails at the timeout with an error
\* naming the component, an unmatched pod, the target version and that
\* pod's observed version.  Stated for the runs in which no pod changed, so
\* that a pod behind now was behind in every iteration.
C16_TimeoutNamesUnmatchedPod ==
  (comp # 0 /\ changes = 0 /\ Behind(comp) # {}) =>
    /\ wstate[comp] \in {"Polling", "TimedOut"}
    /\ wstate[comp] = "TimedOut" =>
         /\ failure # Nil
         /\ failure.component = <<Components[comp]>>
         /\ \E i \in Behind(comp) :
              /\ failure.pod = pods[comp][i].Name
              /\ failure.resourceVersion = target
              /\ failure.configVersion = pods[comp][i].Resp.value

\* The error of a timed out wait is that of its last poll iteration: it
\* names the component, and when the iteration stopped at a failed
\* comparison, a pod of the class, the target and the version observed.
TimedOutWithLastError ==
  \A c \in DOMAIN wstate :
    wstate[c] = "TimedOut" =>
      /\ failure # Nil /\ failure = lastPoll.err
      /\ failure.component = <<Components[c]>>
      /\ failure.text \in {"failed to fetch pods", "failed to call healthz endpoint",
                           "failed to parse response from healthz endpoint",
                           "resource & config versions are not as expected"}
      /\ failure.text = "resource & config versions are not as expected" =>
           /\ \E i \in DOMAIN pods[c] : failure.pod = pods[c][i].Name
           /\ failure.resourceVersion = target
           /\ ~compare(policy, target, failure.configVersion)

\* C16 (amended): while a non-terminating pod of the class reports a
\* version that fails the comparison, no poll iteration reports success;
\* a wait that fails at the timeout fails with the error of its last poll
\* iteration, which names the component and, when that iteration stopped at
\* a failed comparison, the unmatched pod, the target version and the
\* version observed.
C16_TimeoutReportsLastError ==
  [][/\ (PollStep /\ Behind(comp) # {}) => wstate'[comp] # "Converged"
     /\ TimedOutWithLastError']_vars

C16_Witness ==
  /\ comp # 0 /\ wstate[comp] = "TimedOut" /\ clock = Timeout
  /\ changes = 0 /\ Len(pods[comp]) = 2
  /\ Behind(comp) = {2}
  /\ failure.text = "resource & config versions are not as expected"
  /\ failure.pod = pods[comp][2].Name
  /\ failure.resourceVersion = V10 /\ failure.configVersion = V5

\* Class c was touched by the wait: started, polled, or one of its pods called.
Touched(c) ==
  \/ wstate[c] # "NotStarted"
  \/ c \in polled
  \/ \E k \in DOMAIN pods[c] : <<c, k>> \in called

\* C17: propagation over the three classes is sequential and all-or-nothing:
\* waitForConfigToBePropagated waits for virt-controller, then virt-api,
\* then virt-handler; a class is started and its pods are polled only once
\* every earlier class has converged; the wait returns only when all three
\* have converged; and once a class has timed out (or its poll panicked)
\* the wait has failed and no later class is ever started or polled.
C17_SequentialAllOrNothing ==
  wmode = "all" =>
    /\ Components = <<"virt-controller", "virt-api", "virt-handler">>
    /\ \A c \in DOMAIN wstate :
         /\ Touched(c) => \A b \in 1..(c - 1) : wstate[b] = "Converged"
         /\ Touched(c) => c <= comp
         /\ wstate[c] \in {"TimedOut", "Panicked"} =>
              /\ wpc = "failed" /\ comp = c
              /\ \A d \in (c + 1)..Len(wstate) : ~Touched(d)
    /\ wpc = "done" => \A c \in DOMAIN wstate : wstate[c] = "Converged"
    /\ wpc = "failed" => wstate[comp] \in {"TimedOut", "Panicked"}
    /\ lastPoll # Nil /\ lastPoll.err # Nil =>
         \E c \in 1..comp : lastPoll.err.component = <<Components[c]>>

C17_Witness ==
  /\ wmode = "all" /\ wpc = "failed"
  /\ wstate = <<"Converged", "TimedOut", "NotStarted">>
  /\ pods[1] # <<>> /\ pods[3] # <<>> /\ <<1, 1>> \in called
  /\ polled = {1, 2}

\* C18: every failure met while polling is retryable and never aborts the
\* wait before the timeout: a poll iteration either succeeds or leaves the
\* wait pending for a retry after the interval (a failed pod list, a failed
\* health call, an unparsable body, a response without a string
\* "config-resource-version" field, and a failed comparison alike), and the
\* wait fails only by the timeout.
C18_FailuresRetryable ==
  [][/\ PollStep =>
          \/ wpc' = "returned" /\ lastPoll'.err = Nil /\ ~lastPoll'.panicked
          \/ wpc' = "select" /\ wstate'[comp] = "Polling"
     /\ (wpc # "failed" /\ wpc' = "failed") =>
          wstate'[comp] = "TimedOut" /\ clock + PollingInterval >= Timeout]_vars

\* The kubevirt configuration objects are as they were before the call.
ConfigUntouched == store.cm = upd.before.cm /\ store.kv = upd.before.kv

\* C19: configuration changes are serialized and always followed by a
\* propagation wait. After a call of UpdateClusterConfigValueAndWait or
\* UpdateKubeVirtConfigValueAndWait (directly or from resetToDefaultConfig):
\* with more than one parallel node no update was issued; an issued update
\* is followed by waitForConfigToBePropagated for the resource version the
\* update returned, and the function has returned only when that wait has
\* completed with all three classes converged; and when the requested
\* configuration equalled the current one there was no update and no wait.
C19_SerializedAndWaited ==
  upd # Nil =>
    /\ parallelTotal > 1 =>
         upd.issued = <<>> /\ ConfigUntouched /\ wmode = "none"
    /\ upd.issued # <<>> =>
         /\ wmode = "all"
         /\ target = upd.issued[1].version
         /\ store[upd.obj] = [value |-> upd.requested, version |-> target]
    /\ upd.issued = <<>> => ConfigUntouched /\ wmode = "none"
    /\ (upd.phase = "returned" /\ upd.issued # <<>>) =>
         /\ wpc = "done"
         /\ \A c \in DOMAIN wstate : wstate[c] = "Converged"
    /\ upd.before[upd.obj].value = upd.requested =>
         upd.issued = <<>> /\ ConfigUntouched /\ wmode = "none"

C19_Witness ==
  /\ upd # Nil /\ upd.fn = "kubevirt" /\ upd.phase = "returned"
  /\ upd.issued # <<>> /\ parallelTotal = 1
  /\ polled = {1, 2, 3} /\ called # {}

\* str is a base-10 integer: an optional sign and at least one digit.
IsBase10Integer(str) ==
  /\ str # <<>>
  /\ IsNumeral(IF Head(str) \in {"+", "-"} THEN Tail(str) ELSE str)

\* C21: ExpectResourceVersionToBeLessThanConfigVersion(target, observed) is
\* true for every pair of base-10 integer strings exactly when observed >=
\* target numerically, and false (without a crash) when either string is
\* not a base-10 integer; hence a poll that finds every pod reporting an
\* integer version at or above an integer target converges.
C21_NumericComparison ==
  (wmode = "component" /\ policy = "LessThan") =>
    /\ \A i \in DOMAIN pods[comp] :
         LET observed == pods[comp][i].Resp.value
             holds == ExpectResourceVersionToBeLessThanConfigVersion(target,
                                                                     observed)
         IN  /\ (IsNumeral(target) /\ IsNumeral(observed)) =>
                  (holds <=> NumericallyAtLeast(observed, target))
             /\ (~IsBase10Integer(target) \/ ~IsBase10Integer(observed)) =>
                  ~holds
    /\ wstate[comp] # "Panicked"
    /\ (lastPoll # Nil /\ lastPoll.fault = "none" /\ AllMatch(comp)) =>
         wstate[comp] = "Converged"

\* The pods of class c without a deletion timestamp.
Live(c) == SelectSeq(pods[c], LAMBDA p : ~p.Deleting)

\* C22: pods that carry a deletion timestamp are ignored by the waiter: a
\* poll iteration never calls their health endpoint, its outcome is that
\* of polling the remaining pods alone, and it converges when all
\* remaining pods match, whatever the terminating pods report.
C22_TerminatingPodsIgnored ==
  [][PollStep =>
       /\ \A k \in DOMAIN pods[comp] :
            (pods[comp][k].Deleting /\ <<comp, k>> \in called') =>
              <<comp, k>> \in called
       /\ LET r == pollOnce(Live(comp), podLabel(comp), target, policy,
                            lastPoll'.fault)
          IN  lastPoll'.err = r.err /\ lastPoll'.panicked = r.panicked
       /\ (lastPoll'.fault = "none" /\ AllMatch(comp)) =>
            wstate'[comp] = "Converged"]_vars

C22_Witness ==
  /\ comp # 0 /\ wstate[comp] = "Converged"
  /\ \E k \in DOMAIN pods[comp] :
       /\ pods[comp][k].Deleting /\ ~Satisfies(pods[comp][k])
       /\ <<comp, k>> \notin called
  /\ \E k \in DOMAIN pods[comp] : <<comp, k>> \in called

\* The terminal states of a per-class wait.
Terminal == {"Converged", "TimedOut"}

\* C23: each per-class wait is a state machine Polling -> Converged |
\* TimedOut: a class leaves Polling only for one of the two terminal
\* states, never leaves a terminal state, is polled no more once it is
\* terminal, and becomes TimedOut only once the 10-second timeout has
\* elapsed without a converged iteration, the polls being spaced by the
\* 1-second interval.
C23_PollingStateMachine ==
  [][\A c \in DOMAIN wstate :
       /\ wstate[c] = "NotStarted" => wstate'[c] \in {"NotStarted", "Polling"}
       /\ wstate[c] = "Polling" => wstate'[c] \in {"Polling"} \cup Terminal
       /\ wstate[c] \in Terminal => wstate'[c] = wstate[c]
       /\ wstate[c] \notin {"NotStarted", "Polling"} => ~(PollStep /\ comp = c)
       /\ (wstate[c] = "Polling" /\ wstate'[c] = "TimedOut") =>
            /\ clock + PollingInterval >= Timeout
            /\ lastPoll # Nil /\ lastPoll.err # Nil
       /\ (wpc = "select" /\ wpc' = "poll") => clock' = clock + PollingInterval]_vars

\* C24: failed materialization of a volume leaves nothing behind: when the
\* pass of Create over a volume whose image file did not exist at the start
\* of the call ends with an error (an allocation error of createSparseRaw
\* included), no file exists at that volume's image path afterwards, so
\* that a later Create resolves its size again.
C24_FailureLeavesNothing ==
  op = "Create" =>
    \A k \in DOMAIN log :
      LET o == log[k].obs
      IN  (o.mounted /\ log[k].err # NoErr /\ o.path \notin DOMAIN start.files) =>
            o.path \notin DOMAIN files

\* C25: the capacity prober never reports more than the raw available
\* bytes: in every pass that probed a directory, dirBytesAvailable returned
\* raw minus reserve, a value not above raw, also when the reserve exceeds
\* raw; and an image allocated at the full requested size lies on a
\* directory whose raw bytes are at least the reserve plus the request.
C25_ProbeNeverAboveRaw ==
  op = "Create" =>
    \A k \in DOMAIN log :
      LET o == log[k].obs
          reserve == hdc.minimumPVCReserveBytes
          probe == dirBytesAvailable(o.raw, reserve, "none")
      IN  o.sized =>
            /\ probe.err = NoErr
            /\ probe.bytes = o.raw - reserve
            /\ probe.bytes <= o.raw
            /\ (o.allocated /\ o.allocSize = o.requested) =>
                 o.raw >= reserve + o.requested

\* C26: size bound invariant: every image file that Create itself created
\* (createSparseRaw ran for a missing image and left a file) has a
\* length equal to the volume's requested capacity or to the available
\* bytes probed when it was created, and never above the requested
\* capacity.
C26_SizeBound ==
  op = "Create" =>
    \A k \in DOMAIN log :
      LET o == log[k].obs
          capacity == volumes[log[k].vol].HostDisk.Capacity
      IN  (o.allocated /\ o.path \in DOMAIN files) =>
            /\ files[o.path].size \in {capacity, o.available}
            /\ files[o.path].size <= capacity

\* Volume v carries the HostDisk source and no PVC source.
Rewritten(v) == v.HostDisk # Nil /\ v.PersistentVolumeClaim = Nil

C28_ConvergedAtReturn ==
  (wmode = "all" /\ wpc = "done") =>
    \A c \in DOMAIN pods :
      \A i \in DOMAIN pods[c] :
        ~pods[c][i].Deleting =>
          /\ pods[c][i].Resp.reachable /\ pods[c][i].Resp.field = "string"
          /\ NumericallyAtLeast(pods[c][i].Resp.value, target)

C28_Witness ==
  /\ wmode = "all" /\ wpc = "done" /\ changes > 0
  /\ pods[1] # <<>> /\ pods[3] # <<>>
  /\ ~pods[1][1].Deleting /\ pods[1][1].Resp.value = V12
  /\ ~pods[3][1].Deleting /\ pods[3][1].Resp.value = V10

\* An event of the stream was accepted by the process function.
Accepted == \E k \in DOMAIN delivered : delivered[k].outcome = "accepted"

\* C29: Watch refuses to run with an unset start type, and otherwise is
\* over only when the process function has accepted an event, the context
\* is cancelled, or the timeout, when one is set, has elapsed; the expiry
\* of the timeout is reported as a failure unless the call came through
\* WaitNotFor; with no timeout set Watch ends only by a match or a
\* cancellation.
C29_WatchEndings ==
  (wmain # Nil /\ wmain.fn # "none") =>
    /\ watcher.startType = "invalidWatch" =>
         /\ wmain.pc = "failed" /\ wmain.by = "startType"
         /\ wproc.pc = "none" /\ delivered = <<>>
    /\ (watcher.startType # "invalidWatch" /\ wmain.pc \in {"returned", "failed"}) =>
         /\ wmain.by \in {"done", "ctx", "timeout"}
         /\ wmain.by = "done" => Accepted /\ wmain.pc = "returned"
         /\ wmain.by = "ctx" => signals.ctx /\ wmain.pc = "returned"
         /\ wmain.by = "timeout" =>
              /\ signals.timer /\ watcher.timeout = "set"
              /\ wmain.pc = "failed" <=> wmain.fn # "WaitNotFor"
         /\ watcher.timeout = "nil" => wmain.by \in {"done", "ctx"}

\* The positions of the stream whose event has the requested type and
\* reason.
Requested == {k \in DOMAIN sent : sent[k].kind = "Event" /\ Matches(sent[k], wmain.want)}

\* C30: the goroutine of Watch hands the events to the process function
\* one at a time in stream order and stops at the first accepted event:
\* the events handled are a prefix of the stream, done is closed at most
\* once and only after an accepted event, no event is handled after an
\* accepted one, and an event that WaitFor returns is the first event of
\* the stream with the requested type and reason, however event arrival,
\* timeout and cancellation interleave.
C30_OneAtATimeFirstMatch ==
  (wmain # Nil /\ wmain.fn # "none") =>
    /\ Len(delivered) + Len(pending) = Len(sent)
    /\ \A k \in DOMAIN delivered : delivered[k].event = sent[k]
    /\ \A k \in DOMAIN pending : pending[k] = sent[Len(delivered) + k]
    /\ wproc.closes <= 1
    /\ signals.done <=> wproc.closes = 1
    /\ wproc.closes = 1 => Accepted
    /\ \A k \in DOMAIN delivered :
         delivered[k].outcome = "accepted" => k = Len(delivered)
    /\ \A k \in DOMAIN delivered :
         delivered[k].outcome # "rejected" => k = Len(delivered)
    /\ (wmain.fn = "WaitFor" /\ wmain.pc = "returned") =>
         /\ wmain.by = "done" => wmain.e # 0
         /\ wmain.e # 0 =>
              /\ wmain.e \in Requested
              /\ \A k \in Requested : wmain.e <= k
              /\ delivered[wmain.e].outcome = "accepted"

C30_Witness ==
  /\ wmain # Nil /\ wmain.fn = "WaitFor" /\ wmain.pc = "returned"
  /\ wmain.by = "ctx" /\ wmain.e = 2
  /\ Len(sent) = 2 /\ signals.timer /\ ~signals.done

====
